---- MODULE Spec2Model ----
(***************************************************************************)
(* Model of the task dispatcher and the chain-of-thought reasoner of       *)
(* AI_Debugger_Assistant.                                                  *)
(*                                                                         *)
(*   Spec       the asynchronous dispatcher of                             *)
(*              ai_agent_project/src/agents/core/AgentDispatcher.py: the   *)
(*              task table, the priority queue, the dead-letter queue,     *)
(*              the per-agent limiters, and one coroutine per dequeued     *)
(*              entry, which interleaves with the others at its awaits.    *)
(*   SpecSolve  the synchronous dispatcher of                              *)
(*              ai_agent_project/src/AgentDispatcher.py driving            *)
(*              ChainOfThoughtReasoner.solve_task_with_reasoning.          *)
(*   SpecStart  the asynchronous dispatcher from the submissions up to     *)
(*              the first call of agent.solve_task of every execution.     *)
(*   SpecReason solve_task_with_reasoning alone, the agent answering with  *)
(*              one of two successes or a failure.                         *)
(*   SpecPure   parse_decomposition_output and _is_error, each called once *)
(*              on a text.                                                 *)
(*   SpecDeadLetter  the asynchronous dispatcher with its dead-letter      *)
(*              monitor, under the fairness of the event loop.             *)
(*   SpecRetry  the asynchronous dispatcher with an agent that raises on   *)
(*              every call: the retries and the priority queue.            *)
(*   SpecCot    the asynchronous dispatcher with submissions with and      *)
(*              without chain of thought.                                  *)
(*   SpecBase   AgentBase.handle_task_with_error_handling of               *)
(*              agents/core/utilities/agent_base.py.                       *)
(*                                                                         *)
(* Texts are sequences of one-character strings, so that formatting,       *)
(* lower-casing and substring tests are computed and not assumed.          *)
(***************************************************************************)
EXTENDS Integers, Sequences, FiniteSets, TLC

\* ------------------------------------------------------------------ bounds
\* Number of dispatch_task calls, and of
\* handle_task_with_error_handling calls, in one run.
MaxCalls == 2
\* Largest max_retries a dispatcher is built with.
MaxMaxRetries == 2
\* Number of add_agent / remove_agent calls in one run.
MaxRegistryOps == 1
\* Number of dispatch_task calls with use_chain_of_thought in one run.
MaxCotCalls == 1
\* Largest number of steps in a decomposition.
MaxSteps == 2

\* ------------------------------------------------------------------- texts
\* The characters the model's texts are written in, in code-point order.
Alphabet ==
    << "\n", " ", "!", "'", ")", "-", ".",
       "0", "1", "2", "3", "4", "5", "6", "7", "8", "9", ":",
       "A", "B", "C", "D", "E", "F", "G", "H", "I", "J", "K", "L", "M",
       "N", "O", "P", "Q", "R", "S", "T", "U", "V", "W", "X", "Y", "Z", "_",
       "a", "b", "c", "d", "e", "f", "g", "h", "i", "j", "k", "l", "m",
       "n", "o", "p", "q", "r", "s", "t", "u", "v", "w", "x", "y", "z" >>

\* ord(c): the position of the character in the code-point order.
Ord(c) == CHOOSE i \in 1..Len(Alphabet) : Alphabet[i] = c

UpperCase == { Alphabet[i] : i \in Ord("A")..Ord("Z") }

\* str < str, as Python compares strings: lexicographically by code point.
RECURSIVE StrLT(_, _)
StrLT(a, b) ==
    IF b = << >> THEN FALSE
    ELSE IF a = << >> THEN TRUE
    ELSE IF Head(a) = Head(b) THEN StrLT(Tail(a), Tail(b))
    ELSE Ord(Head(a)) < Ord(Head(b))

\* str.lower()
Lower(text) ==
    [ k \in 1..Len(text) |->
        IF text[k] \in UpperCase
        THEN Alphabet[Ord(text[k]) + (Ord("a") - Ord("A"))]
        ELSE text[k] ]

\* pattern in text
Contains(text, pattern) ==
    \E k \in 0..(Len(text) - Len(pattern)) :
        SubSeq(text, k + 1, k + Len(pattern)) = pattern

\* str.lstrip(chars), str.rstrip(chars), str.strip()
RECURSIVE LStrip(_, _)
LStrip(text, chars) ==
    IF text # << >> /\ Head(text) \in chars THEN LStrip(Tail(text), chars)
    ELSE text

RECURSIVE RStrip(_, _)
RStrip(text, chars) ==
    IF text # << >> /\ text[Len(text)] \in chars
    THEN RStrip(SubSeq(text, 1, Len(text) - 1), chars)
    ELSE text

Whitespace == {" ", "\n"}

Strip(text) == RStrip(LStrip(text, Whitespace), Whitespace)

\* str.split(sep) for a one-character separator.
RECURSIVE Split(_, _)
Split(text, sep) ==
    IF \A k \in 1..Len(text) : text[k] # sep THEN << text >>
    ELSE LET k == CHOOSE j \in 1..Len(text) :
                      text[j] = sep /\ \A h \in 1..(j - 1) : text[h] # sep
         IN  << SubSeq(text, 1, k - 1) >> \o
             Split(SubSeq(text, k + 1, Len(text)), sep)

\* str(n) for a natural number.
RECURSIVE IntToText(_)
IntToText(n) ==
    IF n < 10 THEN << Alphabet[Ord("0") + n] >>
    ELSE IntToText(n \div 10) \o << Alphabet[Ord("0") + (n % 10)] >>

\* The task descriptions and agent names callers submit.
T1 == << "t", "1" >>
T2 == << "t", "2" >>
A1 == << "a", "1" >>
Ghost == << "g", "h", "o", "s", "t" >>

Descriptions == {T1, T2}
AgentNames == {A1, Ghost}
Priorities == {1, 2}
\* kwargs of a submission: the empty dict.
Kwargs == {"{}"}

\* Tagged values: Python's None, a str, and the sqlalchemy Result object.
NoneVal == [kind |-> "None"]
Str(t) == [kind |-> "str", text |-> t]
ResultObject == [kind |-> "Result"]


\* ------------------------------------------------------- program constants
\* AsyncLimiter(10, 60): permits of one agent's limiter.
LimiterMaxRate == 10

\* The rows of the Agent table (db/models.py); no code of the dispatcher
\* inserts or deletes them.
AgentTable == {A1}

\* What agent.solve_task may return or raise.
Ok == << "o", "k" >>
Failed == << "F", "a", "i", "l", "e", "d" >>
AgentResults == {Ok, Failed}
Boom == << "b", "o", "o", "m" >>
Exceptions == {Boom}

VARIABLES
    max_retries,        \* AgentDispatcher.max_retries
    agents,             \* AgentDispatcher.agents: name -> handle
    rate_limiters,      \* AgentDispatcher.rate_limiters: name -> limiter object
    limiters,           \* the AsyncLimiter objects: object -> permits held
    registry_ops,       \* history: the add_agent / remove_agent calls so far
    calls,              \* dispatch_task calls so far
    tasks,              \* the Task table, in insertion (created_at) order
    task_queue,         \* asyncio.PriorityQueue: the heap list
    dead_letter_queue,  \* asyncio.Queue
    execs,              \* the coroutines created by execute_tasks
    dlq_log,            \* history: the coroutine of every dead-letter put
    alerts,             \* history: number of _send_alert calls
    warnings,           \* history: warnings of monitor_dead_letter_queue
    api,                \* outcome of the last call of the public API
    cot,                \* the _execute_with_chain_of_thought call in progress
    solve,              \* the solve_task_with_reasoning call: locals, history
    memory,             \* ChainOfThoughtReasoner.memory
    reasoning_graph,    \* ChainOfThoughtReasoner.reasoning_graph
    pure_call,          \* a call of a method that reads no state: its frame
    agent_base          \* an AgentBase object, its Task table and its call

dispatcherVars ==
    << max_retries, agents, rate_limiters, limiters, registry_ops, calls, tasks,
       task_queue, dead_letter_queue, execs, dlq_log, alerts, warnings >>

\* ----------------------------------------------------------- heapq (tuples)
\* Entry of the priority queue: (priority, task, agent_name, kwargs). The
\* fifth component is history, not data of the program: the id of the row the
\* same dispatch_task call committed. No comparison reads it.
Entry(priority, task, agent_name, kwargs, submitted) ==
    << priority, task, agent_name, kwargs, submitted >>

\* x < y on queue entries, as Python compares tuples: by the first component
\* that differs. The kwargs are compared only between entries equal in their
\* first three components, and equal kwargs are not less than each other.
TupleLT(x, y) ==
    IF x[1] # y[1] THEN x[1] < y[1]
    ELSE IF x[2] # y[2] THEN StrLT(x[2], y[2])
    ELSE IF x[3] # y[3] THEN StrLT(x[3], y[3])
    ELSE FALSE

\* heapq._siftdown(heap, startpos, pos), positions counted from 1.
RECURSIVE siftdown(_, _, _)
siftdown(heap, startpos, pos) ==
    IF pos > startpos /\ TupleLT(heap[pos], heap[pos \div 2])
    THEN siftdown([heap EXCEPT ![pos] = heap[pos \div 2],
                               ![pos \div 2] = heap[pos]],
                  startpos, pos \div 2)
    ELSE heap

\* heapq._siftup(heap, pos): move the smaller child up until a leaf is hit,
\* then sift the displaced item down from there.
RECURSIVE siftup_from(_, _, _)
siftup_from(heap, startpos, pos) ==
    LET childpos == 2 * pos
        rightpos == childpos + 1
        c == IF rightpos <= Len(heap) /\ ~TupleLT(heap[childpos], heap[rightpos])
             THEN rightpos ELSE childpos
    IN  IF childpos <= Len(heap)
        THEN siftup_from([heap EXCEPT ![pos] = heap[c], ![c] = heap[pos]],
                         startpos, c)
        ELSE siftdown(heap, startpos, pos)

siftup(heap, pos) == siftup_from(heap, pos, pos)

\* A put that appends, as asyncio.Queue does, with no sift.
heappush_fifo(heap, item) == Append(heap, item)

\* heapq.heappush(heap, item)
heappush(heap, item) == siftdown(Append(heap, item), 1, Len(heap) + 1)

\* heapq.heappop(heap): the item returned and the heap left.
heappop_item(heap) == heap[1]

heappop_rest(heap) ==
    IF Len(heap) = 1 THEN << >>
    ELSE siftup([SubSeq(heap, 1, Len(heap) - 1) EXCEPT ![1] = heap[Len(heap)]], 1)


\* ------------------------------------------------------ the Task table (db)
\* Task(description, agent_id, priority, use_chain_of_thought, status): the
\* row dispatch_task adds. agent_id stands for the Agent row of that name.
NewTask(task, agent_id, priority, use_chain_of_thought) ==
    [ description |-> task,
      agent_id |-> agent_id,
      priority |-> priority,
      use_chain_of_thought |-> use_chain_of_thought,
      status |-> "queued",
      result |-> NoneVal ]

\* select(Task).where(description, agent_id, status in statuses)
\*     .order_by(Task.created_at.desc()) ... .first(): the id of the newest
\* matching row, 0 when there is none.
NewestMatching(table, task, agent_id, statuses) ==
    LET matching == { id \in 1..Len(table) :
                        /\ table[id].description = task
                        /\ table[id].agent_id = agent_id
                        /\ table[id].status \in statuses }
    IN  IF matching = {} THEN 0
        ELSE CHOOSE id \in matching : \A other \in matching : other <= id

\* ------------------------------------------------------------- coroutines
\* One _execute_standard_task coroutine. frames holds, innermost last, the
\* limiter of every frame of the recursion that is inside its try block and
\* releases it in its finally; agent, rate_limiter, current_task and exc are
\* the locals of the innermost frame. History: submitted is the row committed
\* with the entry, waiting the rows whose entries were still queued when this
\* entry was taken, attempts the number of agent.solve_task calls, first_task
\* the row of the first of them, backoff the seconds of the last
\* asyncio.sleep before a retry, agent_value what agent.solve_task returned
\* and returned_result what `return result` handed back.
NewExec(entry, waiting) ==
    [ priority |-> entry[1],
      task |-> entry[2],
      agent_name |-> entry[3],
      kwargs |-> entry[4],
      submitted |-> entry[5],
      waiting |-> waiting,
      retry_count |-> 0,
      pc |-> "created",
      agent |-> 0,
      rate_limiter |-> 0,
      current_task |-> 0,
      frames |-> << >>,
      attempts |-> 0,
      first_task |-> 0,
      exc |-> NoneVal,
      returned |-> "",
      backoff |-> 0,
      agent_value |-> NoneVal,
      returned_result |-> NoneVal ]

\* The coroutine returns: its locals are gone.
Returned(x, how) ==
    [x EXCEPT !.pc = "done", !.returned = how, !.frames = << >>,
              !.agent = 0, !.rate_limiter = 0, !.exc = NoneVal]

\* rate_limiter.release() in the finally of every frame that is unwound.
RECURSIVE ReleaseFrames(_, _)
ReleaseFrames(lims, frames) ==
    IF frames = << >> THEN lims
    ELSE LET l == frames[Len(frames)]
             rest == SubSeq(frames, 1, Len(frames) - 1)
         IN  ReleaseFrames(IF l = 0 THEN lims ELSE [lims EXCEPT ![l] = @ - 1], rest)

\* ------------------------------------------------------------------- Init
\* AgentDispatcher.__init__: the agents loaded from the plugin directory, one
\* limiter per agent, empty queues.
DispatcherInit ==
    /\ max_retries \in 1..MaxMaxRetries
    /\ agents = (A1 :> 1)
    /\ rate_limiters = (A1 :> 1)
    /\ limiters = (1 :> 0)
    /\ registry_ops = << >>
    /\ calls = 0
    /\ tasks = << >>
    /\ task_queue = << >>
    /\ dead_letter_queue = << >>
    /\ execs = << >>
    /\ dlq_log = << >>
    /\ alerts = 0
    /\ warnings = 0

\* ---------------------------------------------------------- dispatch_task
NotFoundInDatabase(agent_name) ==
    << "A", "g", "e", "n", "t", " ", "'" >> \o agent_name \o
    << "'", " ", "n", "o", "t", " ", "f", "o", "u", "n", "d", " ", "i", "n",
       " ", "d", "a", "t", "a", "b", "a", "s", "e", "." >>

\* What the caller of the public API got from its last call: a value, or an
\* exception; Pending while the call has not returned.
Outcome(agent_name, raised, value) ==
    [ agent_name |-> agent_name, returned |-> TRUE, raised |-> raised,
      value |-> value ]

Pending(agent_name) ==
    [ agent_name |-> agent_name, returned |-> FALSE, raised |-> FALSE,
      value |-> NoneVal ]

\* No call in progress, none made yet. decomposition and prompt are history:
\* what the pipeline answered to the decomposition prompt, and the text of
\* the last dispatcher.dispatch_task call of the reasoner.
SolveIdle ==
    [ pc |-> "idle", caller |-> "", task |-> << >>, agent_name |-> << >>,
      execution_order |-> << >>, idx |-> 0, result |-> << >>,
      final_result |-> NoneVal, ret |-> NoneVal, log |-> << >>,
      decomposition |-> NoneVal, prompt |-> << >> ]

\* solve_task_with_reasoning(task, agent_name) is called.
SolveCalled(caller, task, agent_name) ==
    [ SolveIdle EXCEPT !.pc = "decompose", !.caller = caller, !.task = task,
                       !.agent_name = agent_name ]

\* The reasoner of the asynchronous dispatcher, utilities.ChainOfThoughtReasoner,
\* is not among the sources: its solve_task_with_reasoning is taken to follow
\* the Solve protocol, as ai_agent_project/src/ChainOfThoughtReasoner.py does.
CoreSolveCalled(task, agent_name) == SolveCalled("core", task, agent_name)

SolveRunning == solve.pc \in {"decompose", "dispatch", "evaluate", "retry"}

\* The _execute_with_chain_of_thought call: no call made yet. row and calls
\* are history: the row the call committed, the number of calls so far.
CotIdle ==
    [ pc |-> "idle", task |-> << >>, agent_name |-> << >>, row |-> 0,
      status |-> "", result |-> NoneVal, found |-> 0, calls |-> 0 ]

\* dispatch_task that puts the entry on the queue before it commits the row:
\* a commit that raises leaves the entry queued.
dispatch_task_enqueue_first(task, agent_name, priority, use_chain_of_thought, kwargs, commit_ok) ==
    /\ calls < MaxCalls
    /\ cot.pc = "idle"
    /\ use_chain_of_thought => cot.calls < MaxCotCalls
    /\ calls' = calls + 1
    /\ IF agent_name \notin AgentTable
       THEN /\ api' = Outcome(agent_name, FALSE,
                              Str(NotFoundInDatabase(agent_name)))
            /\ UNCHANGED << tasks, task_queue, cot, solve >>
       ELSE /\ tasks' = IF commit_ok
                        THEN Append(tasks, NewTask(task, agent_name, priority,
                                                   use_chain_of_thought))
                        ELSE tasks
            /\ IF use_chain_of_thought /\ commit_ok
               THEN /\ cot' = [CotIdle EXCEPT !.pc = "solving",
                                              !.task = task,
                                              !.agent_name = agent_name,
                                              !.row = Len(tasks) + 1,
                                              !.calls = cot.calls + 1]
                    /\ solve' = CoreSolveCalled(task, agent_name)
                    /\ api' = Pending(agent_name)
                    /\ UNCHANGED task_queue
               ELSE /\ task_queue' =
                           IF use_chain_of_thought THEN task_queue
                           ELSE heappush(task_queue,
                                         Entry(priority, task, agent_name,
                                               kwargs, Len(tasks) + 1))
                    /\ api' = Outcome(agent_name, ~commit_ok, NoneVal)
                    /\ UNCHANGED << cot, solve >>
    /\ UNCHANGED << agent_base, pure_call, max_retries, agents, rate_limiters, limiters,
                    registry_ops,
                    dead_letter_queue, execs, dlq_log, alerts, warnings,
                    memory, reasoning_graph >>

\* dispatch_task(task, agent_name, priority, use_chain_of_thought): look the
\* agent up in the Agent table and return the not-found message if it has no
\* row; commit the queued row (commit_ok = FALSE is a commit that raises);
\* then either call the reasoner, or put the entry on the priority queue and
\* return None. row is history: the id of the row committed.
dispatch_task(task, agent_name, priority, use_chain_of_thought, kwargs, commit_ok) ==
    /\ calls < MaxCalls
    /\ cot.pc = "idle"
    /\ use_chain_of_thought => cot.calls < MaxCotCalls
    /\ calls' = calls + 1
    /\ IF agent_name \notin AgentTable
       THEN /\ api' = Outcome(agent_name, FALSE,
                              Str(NotFoundInDatabase(agent_name)))
            /\ UNCHANGED << tasks, task_queue, cot, solve >>
       ELSE IF ~commit_ok
       THEN /\ api' = Outcome(agent_name, TRUE, NoneVal)
            /\ UNCHANGED << tasks, task_queue, cot, solve >>
       ELSE /\ tasks' = Append(tasks, NewTask(task, agent_name, priority,
                                              use_chain_of_thought))
            /\ IF use_chain_of_thought
               THEN /\ cot' = [CotIdle EXCEPT !.pc = "solving",
                                              !.task = task,
                                              !.agent_name = agent_name,
                                              !.row = Len(tasks) + 1,
                                              !.calls = cot.calls + 1]
                    /\ solve' = CoreSolveCalled(task, agent_name)
                    /\ api' = Pending(agent_name)
                    /\ UNCHANGED task_queue
               ELSE /\ task_queue' =
                           heappush(task_queue,
                                    Entry(priority, task, agent_name, kwargs,
                                          Len(tasks) + 1))
                    /\ api' = Outcome(agent_name, FALSE, NoneVal)
                    /\ UNCHANGED << cot, solve >>
    /\ UNCHANGED << agent_base, pure_call, max_retries, agents, rate_limiters, limiters,
                    registry_ops,
                    dead_letter_queue, execs, dlq_log, alerts, warnings,
                    memory, reasoning_graph >>

\* ---------------------------------------------------------- execute_tasks
\* The turns of the loop while the queue is not empty: get the smallest
\* entry and create_task(_execute_standard_task(...)). history: waiting, the
\* rows of the entries still queued when the entry is taken.
RECURSIVE Drain(_, _)
Drain(heap, created) ==
    IF heap = << >> THEN created
    ELSE LET rest == heappop_rest(heap)
         IN  Drain(rest,
                   Append(created,
                          NewExec(heappop_item(heap),
                                  { rest[k][5] : k \in 1..Len(rest) })))

\* execute_tasks, from one sleep to the next: get() of a queue that is not
\* empty and create_task() do not suspend, so the loop empties the queue
\* before any other coroutine runs.
execute_tasks ==
    /\ task_queue # << >>
    /\ execs' = Drain(task_queue, execs)
    /\ task_queue' = << >>
    /\ UNCHANGED << agent_base, pure_call, max_retries, agents, rate_limiters, limiters,
                    registry_ops,
                    calls, tasks, dead_letter_queue, dlq_log, alerts, warnings,
                    api >>

\* ------------------------------------------------- _execute_standard_task

\* The head of a frame that subscripts the registry, self.agents[agent_name],
\* instead of using get: a removed agent is a KeyError.
BeginFrame_subscript(i, retry_count) ==
    LET x == execs[i] IN
    IF x.agent_name \notin DOMAIN agents
    THEN /\ execs' = [execs EXCEPT
                        ![i] = Returned([x EXCEPT !.retry_count = retry_count],
                                        "KeyError")]
         /\ limiters' = ReleaseFrames(limiters, x.frames)
    ELSE LET l == IF x.agent_name \in DOMAIN rate_limiters
                  THEN rate_limiters[x.agent_name] ELSE 0
         IN  /\ l # 0 => limiters[l] < LimiterMaxRate
             /\ limiters' = IF l = 0 THEN limiters
                            ELSE [limiters EXCEPT ![l] = @ + 1]
             /\ execs' = [execs EXCEPT ![i].retry_count = retry_count,
                                       ![i].agent = agents[x.agent_name],
                                       ![i].rate_limiter = l,
                                       ![i].exc = NoneVal,
                                       ![i].pc = "select"]

\* The head of one frame of _execute_standard_task, up to its first await on
\* the database: look the agent up in the registry, return the not-found
\* message if it is absent, else take a permit of its limiter. A return here
\* unwinds the outer frames of the recursion, each releasing in its finally.
BeginFrame(i, retry_count) ==
    LET x == execs[i] IN
    IF x.agent_name \notin DOMAIN agents
    THEN /\ execs' = [execs EXCEPT
                        ![i] = Returned([x EXCEPT !.retry_count = retry_count],
                                        "agent_not_found")]
         /\ limiters' = ReleaseFrames(limiters, x.frames)
    ELSE LET l == IF x.agent_name \in DOMAIN rate_limiters
                  THEN rate_limiters[x.agent_name] ELSE 0
         IN  /\ l # 0 => limiters[l] < LimiterMaxRate
             /\ limiters' = IF l = 0 THEN limiters
                            ELSE [limiters EXCEPT ![l] = @ + 1]
             /\ execs' = [execs EXCEPT ![i].retry_count = retry_count,
                                       ![i].agent = agents[x.agent_name],
                                       ![i].rate_limiter = l,
                                       ![i].exc = NoneVal,
                                       ![i].pc = "select"]

\* The coroutine created by execute_tasks starts running; the event loop
\* starts the tasks in the order of their creation.
ExecStart(i) ==
    /\ execs[i].pc = "created"
    /\ \A k \in 1..(i - 1) : execs[k].pc # "created"
    /\ BeginFrame(i, 0)
    /\ UNCHANGED << agent_base, pure_call, max_retries, agents, rate_limiters,
                    registry_ops, calls, tasks,
                    task_queue, dead_letter_queue, dlq_log, alerts, warnings,
                    api >>

\* select the newest queued row with this description and agent; return the
\* no-matching-task message if there is none (the permit just taken is not
\* given back on this path).
ExecSelectQueued(i) ==
    LET x == execs[i]
        found == NewestMatching(tasks, x.task, x.agent_name, {"queued"})
    IN  /\ x.pc = "select"
        /\ IF found = 0
           THEN /\ execs' = [execs EXCEPT ![i] = Returned(x, "no_matching_task")]
                /\ limiters' = ReleaseFrames(limiters, x.frames)
           ELSE /\ execs' = [execs EXCEPT ![i].current_task = found,
                                          ![i].pc = "commit"]
                /\ UNCHANGED limiters
        /\ UNCHANGED << agent_base, pure_call, max_retries, agents, rate_limiters,
                        registry_ops, calls, tasks,
                        task_queue, dead_letter_queue, dlq_log, alerts,
                        warnings, api >>

\* current_task.status = "running"; commit; then agent.solve_task is called.
ExecCommitRunning(i) ==
    LET x == execs[i] IN
    /\ x.pc = "commit"
    /\ tasks' = [tasks EXCEPT ![x.current_task].status = "running"]
    /\ execs' = [execs EXCEPT
                    ![i].frames = Append(@, x.rate_limiter),
                    ![i].attempts = @ + 1,
                    ![i].first_task = IF @ = 0 THEN x.current_task ELSE @,
                    ![i].pc = "solving"]
    /\ UNCHANGED << agent_base, pure_call, max_retries, agents, rate_limiters, limiters,
                    registry_ops, calls,
                    task_queue, dead_letter_queue, dlq_log, alerts, warnings,
                    api >>

\* agent.solve_task returns: the row is re-read by id into the name `result`,
\* marked completed with that object as its result, and committed; the
\* frames unwind, returning that object.
AgentReturns(i, result) ==
    LET x == execs[i] IN
    /\ x.pc = "solving"
    /\ tasks' = [tasks EXCEPT ![x.current_task].status = "completed",
                              ![x.current_task].result = ResultObject]
    /\ execs' = [execs EXCEPT
                    ![i] = [Returned(x, "result") EXCEPT
                               !.agent_value = Str(result),
                               !.returned_result = ResultObject]]
    /\ limiters' = ReleaseFrames(limiters, x.frames)
    /\ UNCHANGED << agent_base, pure_call, max_retries, agents, rate_limiters,
                    registry_ops, calls, task_queue,
                    dead_letter_queue, dlq_log, alerts, warnings, api >>

\* except Exception as e: sleep before the recursive call while
\* retry_count < max_retries, else put the entry on the dead-letter queue and
\* send the alert.
HandleException(i, e) ==
    LET x == execs[i] IN
    IF x.retry_count < max_retries
    THEN /\ execs' = [execs EXCEPT ![i].pc = "sleep", ![i].exc = Str(e),
                                   ![i].backoff = 2 ^ x.retry_count]
         /\ UNCHANGED << dead_letter_queue, dlq_log, alerts >>
    ELSE /\ execs' = [execs EXCEPT ![i].pc = "store_failed",
                                   ![i].exc = Str(e)]
         /\ dead_letter_queue' =
                Append(dead_letter_queue,
                       Entry(x.priority, x.task, x.agent_name, x.kwargs,
                             x.submitted))
         /\ dlq_log' = Append(dlq_log, i)
         /\ alerts' = alerts + 1

\* agent.solve_task raises e.
AgentRaises(i, e) ==
    /\ execs[i].pc = "solving"
    /\ HandleException(i, e)
    /\ UNCHANGED << agent_base, pure_call, max_retries, agents, rate_limiters, limiters,
                    registry_ops,
                    calls, tasks, task_queue, warnings, api >>

\* agent.solve_task returns, and the commit of the completed row raises e
\* (the result assigned to the Text column is the Result object of the
\* select, which a driver may refuse to bind): the row stays running and the
\* same handler runs as for an exception of the agent.
CompletedCommitRaises(i, result, e) ==
    /\ execs[i].pc = "solving"
    /\ HandleException(i, e)
    /\ UNCHANGED << agent_base, pure_call, max_retries, agents, rate_limiters, limiters,
                    registry_ops,
                    calls, tasks, task_queue, warnings, api >>

\* A retry that puts the entry back on the priority queue and returns,
\* instead of calling itself.
ExecRetry_requeue(i) ==
    LET x == execs[i] IN
    /\ x.pc = "sleep"
    /\ task_queue' = heappush(task_queue,
                              Entry(x.priority, x.task, x.agent_name,
                                    x.kwargs, x.submitted))
    /\ execs' = [execs EXCEPT ![i] = Returned(x, "requeued")]
    /\ limiters' = ReleaseFrames(limiters, x.frames)
    /\ UNCHANGED << agent_base, pure_call, max_retries, agents, rate_limiters,
                    registry_ops, calls, tasks,
                    dead_letter_queue, dlq_log, alerts, warnings, api >>

\* The backoff sleep is over: the recursive call with retry_count + 1.
ExecRetry(i) ==
    /\ execs[i].pc = "sleep"
    /\ BeginFrame(i, execs[i].retry_count + 1)
    /\ UNCHANGED << agent_base, pure_call, max_retries, agents, rate_limiters,
                    registry_ops, calls, tasks,
                    task_queue, dead_letter_queue, dlq_log, alerts, warnings,
                    api >>

\* Retries exhausted: the row is marked failed with str(e); the frames unwind.
ExecCommitFailed(i) ==
    LET x == execs[i] IN
    /\ x.pc = "store_failed"
    /\ tasks' = [tasks EXCEPT ![x.current_task].status = "failed",
                              ![x.current_task].result = x.exc]
    /\ execs' = [execs EXCEPT ![i] = Returned(x, "error")]
    /\ limiters' = ReleaseFrames(limiters, x.frames)
    /\ UNCHANGED << agent_base, pure_call, max_retries, agents, rate_limiters,
                    registry_ops, calls, task_queue,
                    dead_letter_queue, dlq_log, alerts, warnings, api >>

\* ----------------------------------------------- monitor_dead_letter_queue
\* A monitor that puts the entry it takes back on the priority queue.
monitor_dead_letter_queue_requeue ==
    /\ dead_letter_queue # << >>
    /\ dead_letter_queue' = Tail(dead_letter_queue)
    /\ task_queue' = heappush(task_queue, Head(dead_letter_queue))
    /\ warnings' = warnings + 1
    /\ UNCHANGED << agent_base, pure_call, max_retries, agents, rate_limiters, limiters,
                    registry_ops, calls, tasks, execs, dlq_log, alerts, api >>

\* One turn of the loop with an entry in the queue: the entry is taken and
\* the warning logged.
monitor_dead_letter_queue ==
    /\ dead_letter_queue # << >>
    /\ dead_letter_queue' = Tail(dead_letter_queue)
    /\ warnings' = warnings + 1
    /\ UNCHANGED << agent_base, pure_call, max_retries, agents, rate_limiters, limiters,
                    registry_ops, calls,
                    tasks, task_queue, execs, dlq_log, alerts, api >>

\* ------------------------------------------------ add_agent / remove_agent
Without(f, name) == [ n \in DOMAIN f \ {name} |-> f[n] ]

\* The agent instance of the k-th registry call is object k + 1; the one the
\* dispatcher is constructed with is object 1.
RegistryOp(op, name) ==
    [ op |-> op, name |-> name, handle |-> Len(registry_ops) + 2 ]

\* add_agent that keeps the instance a name is registered with.
add_agent_keep(name) ==
    LET fresh == Len(registry_ops) + 2 IN
    /\ Len(registry_ops) < MaxRegistryOps
    /\ registry_ops' = Append(registry_ops, RegistryOp("add", name))
    /\ agents' = agents @@ (name :> fresh)
    /\ rate_limiters' = (name :> fresh) @@ rate_limiters
    /\ limiters' = (fresh :> 0) @@ limiters
    /\ UNCHANGED << agent_base, pure_call, max_retries, calls, tasks, task_queue,
                    dead_letter_queue, execs, dlq_log, alerts, warnings, api >>

add_agent(name) ==
    LET fresh == Len(registry_ops) + 2 IN
    /\ Len(registry_ops) < MaxRegistryOps
    /\ registry_ops' = Append(registry_ops, RegistryOp("add", name))
    /\ agents' = (name :> fresh) @@ agents
    /\ rate_limiters' = (name :> fresh) @@ rate_limiters
    /\ limiters' = (fresh :> 0) @@ limiters
    /\ UNCHANGED << agent_base, pure_call, max_retries, calls, tasks, task_queue,
                    dead_letter_queue, execs,
                    dlq_log, alerts, warnings, api >>

\* remove_agent with the del of the rate limiter left out.
remove_agent_keep_limiter(name) ==
    /\ Len(registry_ops) < MaxRegistryOps
    /\ registry_ops' = Append(registry_ops, RegistryOp("remove", name))
    /\ IF name \in DOMAIN agents
       THEN /\ agents' = Without(agents, name)
            /\ UNCHANGED rate_limiters
       ELSE UNCHANGED << agents, rate_limiters >>
    /\ UNCHANGED << agent_base, pure_call, max_retries, calls, limiters, tasks,
                    task_queue, dead_letter_queue,
                    execs, dlq_log, alerts, warnings, api >>

remove_agent(name) ==
    /\ Len(registry_ops) < MaxRegistryOps
    /\ registry_ops' = Append(registry_ops, RegistryOp("remove", name))
    /\ IF name \in DOMAIN agents
       THEN /\ agents' = Without(agents, name)
            /\ rate_limiters' = Without(rate_limiters, name)
       ELSE UNCHANGED << agents, rate_limiters >>
    /\ UNCHANGED << agent_base, pure_call, max_retries, calls, limiters, tasks,
                    task_queue, dead_letter_queue,
                    execs, dlq_log, alerts, warnings, api >>

\* =================================================== ChainOfThoughtReasoner
reasonerVars == << solve, memory, reasoning_graph >>

\* The step contents a decomposition may hold.
StepA == << "s", "A" >>
StepB == << "s", "B" >>
StepTexts == {StepA, StepB}

\* "1. <step>\n2. <step>...": the text of a numbered list of steps.
RECURSIVE Numbered(_, _)
Numbered(steps, from) ==
    IF from > Len(steps) THEN << >>
    ELSE IntToText(from) \o << ".", " " >> \o steps[from] \o
         (IF from < Len(steps) THEN << "\n" >> ELSE << >>) \o
         Numbered(steps, from + 1)

\* What the text-generation pipeline may answer to the decomposition prompt.
DecompositionTexts ==
    { Numbered(steps, 1) :
        steps \in UNION { [1..n -> StepTexts] : n \in 0..MaxSteps } }

\* What the pipeline may answer to the evaluation prompt.
Yes == << "Y", "e", "s" >>
No == << "n", "o" >>
EvaluationTexts == {Yes, No}

\* An external call returns a text or raises.
Returns(text) == [ raised |-> FALSE, text |-> text ]
Raises(e) == [ raised |-> TRUE, text |-> e ]
Outcomes(texts) ==
    { Returns(t) : t \in texts } \cup { Raises(e) : e \in Exceptions }

\* _is_error(result)
error_indicators ==
    { << "e", "r", "r", "o", "r" >>,
      << "f", "a", "i", "l", "e", "d" >>,
      << "e", "x", "c", "e", "p", "t", "i", "o", "n" >>,
      << "i", "n", "v", "a", "l", "i", "d" >>,
      << "c", "o", "u", "l", "d", " ", "n", "o", "t" >>,
      << "u", "n", "a", "b", "l", "e", " ", "t", "o" >> }

\* _is_error with the lower() left out.
is_error_case_sensitive(result) ==
    \E indicator \in error_indicators : Contains(result, indicator)

is_error(result) ==
    \E indicator \in error_indicators : Contains(Lower(result), indicator)

\* parse_decomposition_output(text): the lines, stripped, with the leading
\* characters of '0123456789.)- ' and the bullet removed, the empty ones
\* dropped. (The bullet character is not in the model's alphabet.)
NumberingChars ==
    { "0", "1", "2", "3", "4", "5", "6", "7", "8", "9", ".", ")", "-", " " }

RECURSIVE ParseLines(_)
ParseLines(lines) ==
    IF lines = << >> THEN << >>
    ELSE LET line == Strip(Head(lines))
             step == Strip(LStrip(line, NumberingChars))
         IN  (IF line # << >> /\ step # << >> THEN << step >> ELSE << >>)
             \o ParseLines(Tail(lines))

parse_decomposition_output(text) == ParseLines(Split(text, "\n"))

\* build_reasoning_graph with every edge turned round: step_<idx> ->
\* step_<idx-1>.
build_reasoning_graph_reversed(steps) ==
    [ nodes |-> [ idx \in 1..Len(steps) |-> steps[idx] ],
      edges |-> { << idx, idx - 1 >> : idx \in 2..Len(steps) } ]

\* build_reasoning_graph(steps): the graph is cleared, then gets one node
\* step_<idx> per step and the edge step_<idx-1> -> step_<idx>. A node is
\* named by its idx.
build_reasoning_graph(steps) ==
    [ nodes |-> [ idx \in 1..Len(steps) |-> steps[idx] ],
      edges |-> { << idx - 1, idx >> : idx \in 2..Len(steps) } ]

\* list(nx.topological_sort(graph)): the nodes, every edge pointing forward.
topological_sort(graph) ==
    LET ids == DOMAIN graph.nodes
        n == Cardinality(ids)
    IN  CHOOSE order \in [1..n -> ids] :
            /\ \A a, b \in 1..n : a # b => order[a] # order[b]
            /\ \A e \in graph.edges :
                   \E a, b \in 1..n : a < b /\ order[a] = e[1] /\ order[b] = e[2]

\* enrich_step_with_memory(step): "Contextual Memory:\n" + the lines
\* "step_<k>: <result>" of the memory + "\n\nTask Step: " + step.
RECURSIVE MemoryLines(_, _)
MemoryLines(mem, keys) ==
    IF keys = {} THEN << >>
    ELSE LET k == CHOOSE x \in keys : \A y \in keys : x <= y
         IN  << "s", "t", "e", "p", "_" >> \o IntToText(k) \o << ":", " " >>
             \o mem[k]
             \o (IF keys = {k} THEN << >> ELSE << "\n" >>)
             \o MemoryLines(mem, keys \ {k})

enrich_step_with_memory(step) ==
    << "C", "o", "n", "t", "e", "x", "t", "u", "a", "l", " ", "M", "e", "m",
       "o", "r", "y", ":", "\n" >>
    \o MemoryLines(memory, DOMAIN memory)
    \o << "\n", "\n", "T", "a", "s", "k", " ", "S", "t", "e", "p", ":", " " >>
    \o step

\* The prompt of retry_step(step, agent_name).
retry_prompt(step) ==
    << "T", "h", "e", " ", "p", "r", "e", "v", "i", "o", "u", "s", " ", "a",
       "t", "t", "e", "m", "p", "t", " ", "t", "o", " ", "c", "o", "m", "p",
       "l", "e", "t", "e", " ", "t", "h", "e", " ", "s", "t", "e", "p", " ",
       "f", "a", "i", "l", "e", "d", ".", " ", "P", "l", "e", "a", "s", "e",
       " ", "t", "r", "y", " ", "a", "g", "a", "i", "n", " ", "w", "i", "t",
       "h", " ", "m", "o", "r", "e", " ", "d", "e", "t", "a", "i", "l", "s",
       ".", "\n", "\n", "S", "t", "e", "p", ":", " " >> \o step

\* update_memory(step_id, result)
update_memory(step_id, result) == (step_id :> result) @@ memory

\* self_evaluate with the lower() left out.
is_valid_case_sensitive(evaluation_text) ==
    Contains(Strip(evaluation_text), << "y", "e", "s" >>)

\* self_evaluate: 'yes' in the stripped, lower-cased answer.
is_valid(evaluation_text) ==
    Contains(Lower(Strip(evaluation_text)), << "y", "e", "s" >>)

\* The messages solve_task_with_reasoning returns.
FailedAtStep(idx, step, result) ==
    << "F", "a", "i", "l", "e", "d", " ", "a", "t", " ", "s", "t", "e", "p",
       " " >> \o IntToText(idx) \o << ":", " ", "'" >> \o step \o
    << "'", ".", " ", "E", "r", "r", "o", "r", ":", " " >> \o result

RetryFailedAtStep(idx, step, retry_result) ==
    << "R", "e", "t", "r", "y", " ", "f", "a", "i", "l", "e", "d", " ", "a",
       "t", " ", "s", "t", "e", "p", " " >> \o IntToText(idx) \o
    << ":", " ", "'" >> \o step \o
    << "'", ".", " ", "E", "r", "r", "o", "r", ":", " " >> \o retry_result

NoResultProduced ==
    << "N", "o", " ", "r", "e", "s", "u", "l", "t", " ", "p", "r", "o", "d",
       "u", "c", "e", "d", "." >>

UnexpectedError(e) ==
    << "A", "n", " ", "u", "n", "e", "x", "p", "e", "c", "t", "e", "d", " ",
       "e", "r", "r", "o", "r", " ", "o", "c", "c", "u", "r", "r", "e", "d",
       ":", " " >> \o e

\* ------------------------------- the dispatcher the reasoner calls back into
\* AgentDispatcher.dispatch_task(task, agent_name) of
\* ai_agent_project/src/AgentDispatcher.py without chain of thought: the
\* not-found message for an unregistered name, else what
\* agents[agent_name].solve_task(task) returns or raises.
AgentNotFound(agent_name) ==
    << "A", "g", "e", "n", "t", " ", "'" >> \o agent_name \o
    << "'", " ", "n", "o", "t", " ", "f", "o", "u", "n", "d", "!" >>

simple_dispatch(task, agent_name, agent_outcome) ==
    IF agent_name \notin DOMAIN agents
    THEN Returns(AgentNotFound(agent_name))
    ELSE agent_outcome

\* ----------------------------------------------- solve_task_with_reasoning
\* History: one entry per call Solve makes to the agent or the evaluator.
Event(ev, idx, outcome) ==
    [ ev |-> ev, idx |-> idx, raised |-> outcome.raised,
      text |-> outcome.text, context |-> memory ]

\* Solve returns ret to its caller: the synchronous dispatcher hands it to
\* the caller of the API, _execute_with_chain_of_thought goes on to
\* _update_task_status(task, agent_name, "completed", result).
SolveReturn(locals, ret) ==
    /\ solve' = [locals EXCEPT !.pc = "returned", !.ret = Str(ret)]
    /\ IF solve.caller = "core"
       THEN /\ cot' = [cot EXCEPT !.pc = "update_select",
                                  !.status = "completed",
                                  !.result = Str(ret)]
            /\ UNCHANGED api
       ELSE /\ api' = Outcome(solve.agent_name, FALSE, Str(ret))
            /\ UNCHANGED cot

\* The loop with final_result assigned once only: the result of the first
\* step is what the call returns.
AcceptStep_first(locals, result) ==
    LET kept == IF locals.final_result = NoneVal THEN result
                ELSE locals.final_result.text
    IN  IF locals.idx = Len(locals.execution_order)
        THEN SolveReturn([locals EXCEPT !.final_result = Str(kept)], kept)
        ELSE /\ solve' = [locals EXCEPT !.final_result = Str(kept),
                                        !.idx = @ + 1, !.pc = "dispatch"]
             /\ UNCHANGED << api, cot >>

\* The step's result is accepted: final_result = result, then the next step,
\* or the return of final_result after the last one.
AcceptStep(locals, result) ==
    IF locals.idx = Len(locals.execution_order)
    THEN SolveReturn([locals EXCEPT !.final_result = Str(result)], result)
    ELSE /\ solve' = [locals EXCEPT !.final_result = Str(result),
                                    !.idx = @ + 1, !.pc = "dispatch"]
         /\ UNCHANGED << api, cot >>

\* solve_task_with_reasoning without its outer handler: the exception of the
\* pipeline reaches the caller.
SolveDecompose_uncaught(outcome) ==
    /\ solve.pc = "decompose"
    /\ IF outcome.raised
       THEN /\ solve' = [solve EXCEPT !.decomposition = outcome,
                                      !.pc = "returned"]
            /\ api' = Outcome(solve.agent_name, TRUE, Str(outcome.text))
            /\ UNCHANGED << cot, reasoning_graph >>
       ELSE LET steps == parse_decomposition_output(outcome.text)
                graph == build_reasoning_graph(steps)
                order == topological_sort(graph)
                locals == [solve EXCEPT !.decomposition = outcome]
            IN  /\ reasoning_graph' = graph
                /\ IF order = << >>
                   THEN SolveReturn(locals, NoResultProduced)
                   ELSE /\ solve' = [locals EXCEPT !.execution_order = order,
                                                  !.idx = 1,
                                                  !.pc = "dispatch"]
                        /\ UNCHANGED << api, cot >>
    /\ UNCHANGED << agent_base, pure_call, dispatcherVars, memory >>

\* decompose_task: the pipeline call, parse_decomposition_output,
\* build_reasoning_graph and the topological sort; an exception of the
\* pipeline is caught by the outer handler of solve_task_with_reasoning.
SolveDecompose(outcome) ==
    /\ solve.pc = "decompose"
    /\ IF outcome.raised
       THEN /\ SolveReturn([solve EXCEPT !.decomposition = outcome],
                           UnexpectedError(outcome.text))
            /\ UNCHANGED reasoning_graph
       ELSE LET steps == parse_decomposition_output(outcome.text)
                graph == build_reasoning_graph(steps)
                order == topological_sort(graph)
                locals == [solve EXCEPT !.decomposition = outcome]
            IN  /\ reasoning_graph' = graph
                /\ IF order = << >>
                   THEN SolveReturn(locals, NoResultProduced)
                   ELSE /\ solve' = [locals EXCEPT !.execution_order = order,
                                                  !.idx = 1,
                                                  !.pc = "dispatch"]
                        /\ UNCHANGED << api, cot >>
    /\ UNCHANGED << agent_base, pure_call, dispatcherVars, memory >>

\* The loop with the return on an error result left out: the error result is
\* stored and evaluated like any other.
SolveDispatchStep_continue(agent_outcome) ==
    LET step_id == solve.execution_order[solve.idx]
        step == reasoning_graph.nodes[step_id]
        got == simple_dispatch(enrich_step_with_memory(step),
                               solve.agent_name, agent_outcome)
        locals == [solve EXCEPT !.log = Append(@, Event("dispatch", solve.idx, got)),
                                !.prompt = enrich_step_with_memory(step)]
    IN  /\ solve.pc = "dispatch"
        /\ IF got.raised
           THEN /\ SolveReturn(locals, UnexpectedError(got.text))
                /\ UNCHANGED memory
           ELSE /\ memory' = update_memory(step_id, got.text)
                /\ solve' = [locals EXCEPT !.result = got.text,
                                           !.pc = "evaluate"]
                /\ UNCHANGED << api, cot >>
        /\ UNCHANGED << agent_base, pure_call, dispatcherVars, reasoning_graph >>

\* One turn of the loop up to the self-evaluation: dispatch the enriched
\* step, return the failure message if the result is an error, else store
\* the result in the memory.
SolveDispatchStep(agent_outcome) ==
    LET step_id == solve.execution_order[solve.idx]
        step == reasoning_graph.nodes[step_id]
        got == simple_dispatch(enrich_step_with_memory(step),
                               solve.agent_name, agent_outcome)
        locals == [solve EXCEPT !.log = Append(@, Event("dispatch", solve.idx, got)),
                                !.prompt = enrich_step_with_memory(step)]
    IN  /\ solve.pc = "dispatch"
        /\ IF got.raised
           THEN /\ SolveReturn(locals, UnexpectedError(got.text))
                /\ UNCHANGED memory
           ELSE IF is_error(got.text)
           THEN /\ SolveReturn(locals, FailedAtStep(solve.idx, step, got.text))
                /\ UNCHANGED memory
           ELSE /\ memory' = update_memory(step_id, got.text)
                /\ solve' = [locals EXCEPT !.result = got.text,
                                           !.pc = "evaluate"]
                /\ UNCHANGED << api, cot >>
        /\ UNCHANGED << agent_base, pure_call, dispatcherVars, reasoning_graph >>

\* The loop with the retry left out: a rejected result is accepted like a
\* valid one.
SolveEvaluate_no_retry(outcome) ==
    LET locals == [solve EXCEPT !.log = Append(@, Event("evaluate", solve.idx, outcome))]
    IN  /\ solve.pc = "evaluate"
        /\ IF outcome.raised
           THEN SolveReturn(locals, UnexpectedError(outcome.text))
           ELSE AcceptStep(locals, solve.result)
        /\ UNCHANGED << agent_base, pure_call, dispatcherVars, memory, reasoning_graph >>

\* self_evaluate(step, result): accept the result if the answer holds a
\* 'yes', else go on to retry_step.
SolveEvaluate(outcome) ==
    LET locals == [solve EXCEPT !.log = Append(@, Event("evaluate", solve.idx, outcome))]
    IN  /\ solve.pc = "evaluate"
        /\ IF outcome.raised
           THEN SolveReturn(locals, UnexpectedError(outcome.text))
           ELSE IF is_valid(outcome.text)
           THEN AcceptStep(locals, solve.result)
           ELSE /\ solve' = [locals EXCEPT !.pc = "retry"]
                /\ UNCHANGED << api, cot >>
        /\ UNCHANGED << agent_base, pure_call, dispatcherVars, memory, reasoning_graph >>

\* A retry whose result is evaluated like a first result, and retried again
\* if it is rejected.
SolveRetryStep_reevaluate(agent_outcome) ==
    LET step_id == solve.execution_order[solve.idx]
        step == reasoning_graph.nodes[step_id]
        got == simple_dispatch(retry_prompt(step), solve.agent_name,
                               agent_outcome)
        locals == [solve EXCEPT !.log = Append(@, Event("retry", solve.idx, got)),
                                !.prompt = retry_prompt(step)]
    IN  /\ solve.pc = "retry"
        /\ IF got.raised
           THEN /\ SolveReturn(locals, UnexpectedError(got.text))
                /\ UNCHANGED memory
           ELSE IF is_error(got.text)
           THEN /\ SolveReturn(locals,
                               RetryFailedAtStep(solve.idx, step, got.text))
                /\ UNCHANGED memory
           ELSE /\ memory' = update_memory(step_id, got.text)
                /\ solve' = [locals EXCEPT !.result = got.text,
                                           !.pc = "evaluate"]
                /\ UNCHANGED << api, cot >>
        /\ UNCHANGED << agent_base, pure_call, dispatcherVars, reasoning_graph >>

\* retry_step(step, agent_name): one more dispatch, of the retry prompt; its
\* result is returned as a failure if it is an error, else stored in the
\* memory and accepted.
SolveRetryStep(agent_outcome) ==
    LET step_id == solve.execution_order[solve.idx]
        step == reasoning_graph.nodes[step_id]
        got == simple_dispatch(retry_prompt(step), solve.agent_name,
                               agent_outcome)
        locals == [solve EXCEPT !.log = Append(@, Event("retry", solve.idx, got)),
                                !.prompt = retry_prompt(step)]
    IN  /\ solve.pc = "retry"
        /\ IF got.raised
           THEN /\ SolveReturn(locals, UnexpectedError(got.text))
                /\ UNCHANGED memory
           ELSE IF is_error(got.text)
           THEN /\ SolveReturn(locals,
                               RetryFailedAtStep(solve.idx, step, got.text))
                /\ UNCHANGED memory
           ELSE /\ memory' = update_memory(step_id, got.text)
                /\ AcceptStep([locals EXCEPT !.result = got.text], got.text)
        /\ UNCHANGED << agent_base, pure_call, dispatcherVars, reasoning_graph >>

ReasonerInit ==
    /\ solve = SolveIdle
    /\ memory = << >>
    /\ reasoning_graph = build_reasoning_graph(<< >>)

\* ------------------------------------------------ _update_task_status
\* _update_task_status(task, agent_name, status, result), called with the
\* value Solve returned: select the newest row with this description and
\* agent whose status is running or queued. With no such row the call
\* returns, and so do _execute_with_chain_of_thought and dispatch_task: the
\* locals of the Solve call are gone.
UpdateStatusSelect ==
    LET found == NewestMatching(tasks, cot.task, cot.agent_name,
                                {"running", "queued"})
    IN  /\ cot.pc = "update_select"
        /\ IF found = 0
           THEN /\ cot' = [cot EXCEPT !.pc = "idle"]
                /\ api' = Outcome(cot.agent_name, FALSE, cot.result)
                /\ solve' = SolveIdle
           ELSE /\ cot' = [cot EXCEPT !.pc = "update_commit", !.found = found]
                /\ UNCHANGED << api, solve >>
        /\ UNCHANGED << agent_base, pure_call, dispatcherVars, memory, reasoning_graph >>

\* _execute_with_chain_of_thought that does not return the result it stored.
UpdateStatusCommit_returns_none ==
    /\ cot.pc = "update_commit"
    /\ tasks' = [tasks EXCEPT ![cot.found].status = cot.status,
                              ![cot.found].result = cot.result]
    /\ cot' = [cot EXCEPT !.pc = "idle"]
    /\ api' = Outcome(cot.agent_name, FALSE, NoneVal)
    /\ solve' = SolveIdle
    /\ UNCHANGED << agent_base, pure_call, max_retries, agents, rate_limiters, limiters,
                    registry_ops, calls,
                    task_queue, dead_letter_queue, execs, dlq_log, alerts,
                    warnings, memory, reasoning_graph >>

\* task_record.status = status; task_record.result = result; commit. Then
\* _execute_with_chain_of_thought and dispatch_task return the result.
UpdateStatusCommit ==
    /\ cot.pc = "update_commit"
    /\ tasks' = [tasks EXCEPT ![cot.found].status = cot.status,
                              ![cot.found].result = cot.result]
    /\ cot' = [cot EXCEPT !.pc = "idle"]
    /\ api' = Outcome(cot.agent_name, FALSE, cot.result)
    /\ solve' = SolveIdle
    /\ UNCHANGED << agent_base, pure_call, max_retries, agents, rate_limiters, limiters,
                    registry_ops, calls,
                    task_queue, dead_letter_queue, execs, dlq_log, alerts,
                    warnings, memory, reasoning_graph >>

\* ------------------------- ai_agent_project/src/AgentDispatcher.py (API)
\* dispatch_task(task, agent_name, use_chain_of_thought) of the synchronous
\* dispatcher: the not-found message, or the reasoner, or the agent itself,
\* whose exception reaches the caller.
simple_dispatch_task(task, agent_name, use_chain_of_thought, agent_outcome) ==
    /\ calls < MaxCalls
    /\ ~SolveRunning
    /\ calls' = calls + 1
    /\ IF agent_name \notin DOMAIN agents
       THEN /\ api' = Outcome(agent_name, FALSE, Str(AgentNotFound(agent_name)))
            /\ UNCHANGED solve
       ELSE IF use_chain_of_thought
       THEN /\ solve' = SolveCalled("simple", task, agent_name)
            /\ api' = Pending(agent_name)
       ELSE /\ api' = Outcome(agent_name, agent_outcome.raised,
                              Str(agent_outcome.text))
            /\ UNCHANGED solve
    /\ UNCHANGED << agent_base, pure_call, max_retries, agents, rate_limiters, limiters,
                    registry_ops, tasks,
                    task_queue, dead_letter_queue, execs, dlq_log, alerts,
                    warnings, cot, memory, reasoning_graph >>

\* add_agent(agent_name, agent_instance) of the synchronous dispatcher.
simple_add_agent(name) ==
    /\ Len(registry_ops) < MaxRegistryOps
    /\ ~SolveRunning
    /\ registry_ops' = Append(registry_ops, RegistryOp("add", name))
    /\ agents' = (name :> Len(registry_ops) + 2) @@ agents
    /\ UNCHANGED << agent_base, pure_call, max_retries, rate_limiters, limiters, calls,
                    tasks, task_queue,
                    dead_letter_queue, execs, dlq_log, alerts, warnings, api,
                    cot, reasonerVars >>

\* remove_agent(agent_name) of the synchronous dispatcher.
simple_remove_agent(name) ==
    /\ Len(registry_ops) < MaxRegistryOps
    /\ ~SolveRunning
    /\ registry_ops' = Append(registry_ops, RegistryOp("remove", name))
    /\ agents' = IF name \in DOMAIN agents THEN Without(agents, name)
                 ELSE agents
    /\ UNCHANGED << agent_base, pure_call, max_retries, rate_limiters, limiters, calls,
                    tasks, task_queue,
                    dead_letter_queue, execs, dlq_log, alerts, warnings, api,
                    cot, reasonerVars >>

\* ------------------------------------------------- calls of pure methods
\* The frame of a call of parse_decomposition_output or _is_error: the
\* method, its argument, and its return value once it has returned.
NoCall == [ fn |-> "", arg |-> << >>, done |-> FALSE, ret |-> NoneVal ]

Called(fn, arg) == [ fn |-> fn, arg |-> arg, done |-> FALSE, ret |-> NoneVal ]

\* ChainOfThoughtReasoner.parse_decomposition_output(text) returns.
parse_decomposition_output_returns ==
    /\ pure_call.fn = "parse_decomposition_output"
    /\ ~pure_call.done
    /\ pure_call' = [pure_call EXCEPT
                        !.done = TRUE,
                        !.ret = parse_decomposition_output(pure_call.arg)]
    /\ UNCHANGED << agent_base, dispatcherVars, api, cot, reasonerVars >>

\* ChainOfThoughtReasoner._is_error(result) returns.
is_error_returns ==
    /\ pure_call.fn = "_is_error"
    /\ ~pure_call.done
    /\ pure_call' = [pure_call EXCEPT !.done = TRUE,
                                      !.ret = is_error(pure_call.arg)]
    /\ UNCHANGED << agent_base, dispatcherVars, api, cot, reasonerVars >>

\* ------------------------------------- core/utilities/agent_base.py
\* AgentBase.MAX_RETRIES
MAX_RETRIES == 3

\* What handle_task_with_error_handling returns after a failure without a
\* fallback, what the fallback of the caller returns, and the exception of
\* a call of a method the object does not have.
AnErrorOccurred ==
    << "A", "n", " ", "e", "r", "r", "o", "r", " ", "o", "c", "c", "u", "r",
       "r", "e", "d", " ", "w", "h", "i", "l", "e", " ", "p", "r", "o", "c",
       "e", "s", "s", "i", "n", "g", " ", "t", "h", "e", " ", "t", "a", "s",
       "k", "." >>

FallbackResult == << "f", "a", "l", "l", "b", "a", "c", "k" >>

AttributeError ==
    << "A", "t", "t", "r", "i", "b", "u", "t", "e", "E", "r", "r", "o", "r" >>

\* No AgentBase object exists.
NoAgentBase == [ pc |-> "none" ]

\* An object of a subclass of AgentBase, no call made. AgentBase calls
\* self.log_error and does not define it: has_log_error says whether the
\* subclass does. rows is the Task table of agent_base.py; handled,
\* solve_calls and trail are history: the calls of
\* handle_task_with_error_handling so far, the solve_task calls of the
\* current one, and the statuses its row has had.
AgentBaseInit(has_log_error) ==
    [ pc |-> "idle", has_log_error |-> has_log_error, handled |-> 0,
      rows |-> << >>, task_id |-> 0, fallback |-> FALSE, attempt |-> 0,
      backoff |-> 0, solve_calls |-> 0, trail |-> << >>,
      raised |-> FALSE, ret |-> NoneVal ]

\* update_task_state(task_id, new_status, result): the result is written
\* only if one is given.
update_task_state(b, new_status, result) ==
    [b EXCEPT !.rows[b.task_id].status = new_status,
              !.rows[b.task_id].result = IF result = NoneVal THEN @ ELSE result,
              !.trail = Append(@, new_status)]

\* handle_task_with_error_handling(task_data, fallback) is called:
\* save_task_state("task_execution", pending), then _execute_with_retry
\* starts with attempt = 0.
handle_task_with_error_handling(fallback) ==
    /\ agent_base.pc \in {"idle", "done"}
    /\ agent_base.handled < MaxCalls
    /\ agent_base' =
           [agent_base EXCEPT
               !.pc = "loop", !.handled = @ + 1,
               !.rows = Append(@, [status |-> "pending", result |-> NoneVal]),
               !.task_id = Len(agent_base.rows) + 1,
               !.fallback = fallback, !.attempt = 0, !.backoff = 0,
               !.solve_calls = 0, !.trail = << "pending" >>,
               !.raised = FALSE, !.ret = NoneVal]
    /\ UNCHANGED << dispatcherVars, api, cot, reasonerVars, pure_call >>

\* The exception reaches the handler of handle_task_with_error_handling:
\* log_error, update_task_state(failed), and the fallback or the message
\* is returned. Without log_error the handler itself raises AttributeError
\* before it has stored anything.
HandleTaskFailed(b) ==
    IF ~b.has_log_error
    THEN [b EXCEPT !.pc = "done", !.raised = TRUE, !.ret = Str(AttributeError)]
    ELSE [update_task_state(b, "failed", NoneVal) EXCEPT
             !.pc = "done",
             !.ret = IF b.fallback THEN Str(FallbackResult)
                     ELSE Str(AnErrorOccurred)]

\* The result reaches handle_task_with_error_handling:
\* update_task_state(completed, result) and return result.
HandleTaskCompleted(b, result) ==
    [update_task_state(b, "completed", result) EXCEPT
        !.pc = "done", !.ret = result]

\* _execute_with_retry, the head of the while loop: with attempt <
\* MAX_RETRIES the row is set to running and solve_task is called; else the
\* loop ends and the method returns None.
execute_with_retry_loop ==
    /\ agent_base.pc = "loop"
    /\ agent_base' =
           IF agent_base.attempt < MAX_RETRIES
           THEN [update_task_state(agent_base, "running", NoneVal) EXCEPT
                    !.pc = "solving"]
           ELSE HandleTaskCompleted(agent_base, NoneVal)
    /\ UNCHANGED << dispatcherVars, api, cot, reasonerVars, pure_call >>

\* solve_task returns result: _execute_with_retry returns it.
solve_task_returns(result) ==
    /\ agent_base.pc = "solving"
    /\ agent_base' =
           HandleTaskCompleted([agent_base EXCEPT !.solve_calls = @ + 1],
                               Str(result))
    /\ UNCHANGED << dispatcherVars, api, cot, reasonerVars, pure_call >>

\* solve_task raises e: attempt += 1; log_error; then either
\* update_task_state(retrying) and the sleep of 2 ** attempt seconds, or the
\* raise that ends _execute_with_retry. Without log_error the AttributeError
\* of the call ends _execute_with_retry at once.
solve_task_raises(e) ==
    LET b == [agent_base EXCEPT !.solve_calls = @ + 1, !.attempt = @ + 1]
    IN  /\ agent_base.pc = "solving"
        /\ agent_base' =
               IF ~b.has_log_error THEN HandleTaskFailed(b)
               ELSE IF b.attempt < MAX_RETRIES
               THEN [update_task_state(b, "retrying", NoneVal) EXCEPT
                        !.pc = "sleep", !.backoff = 2 ^ b.attempt]
               ELSE HandleTaskFailed(b)
        /\ UNCHANGED << dispatcherVars, api, cot, reasonerVars, pure_call >>

\* time.sleep(backoff) is over: back to the head of the loop.
execute_with_retry_sleep_over ==
    /\ agent_base.pc = "sleep"
    /\ agent_base' = [agent_base EXCEPT !.pc = "loop"]
    /\ UNCHANGED << dispatcherVars, api, cot, reasonerVars, pure_call >>

\* ------------------------------------------------------------------- Spec
vars == << dispatcherVars, api, cot, reasonerVars, pure_call, agent_base >>

Init ==
    /\ DispatcherInit
    /\ ReasonerInit
    /\ api = Pending(<< >>)
    /\ cot = CotIdle
    /\ pure_call = NoCall
    /\ agent_base = NoAgentBase

\* A step of the event loop: the coroutines of the dispatcher run only while
\* no synchronous solve_task_with_reasoning call holds the loop.
Loop(A) == ~SolveRunning /\ A /\ UNCHANGED << cot, reasonerVars >>

Next ==
    \/ \E task \in Descriptions, agent_name \in AgentNames,
          priority \in Priorities, use_chain_of_thought \in BOOLEAN,
          kwargs \in Kwargs, commit_ok \in BOOLEAN :
           dispatch_task(task, agent_name, priority, use_chain_of_thought,
                         kwargs, commit_ok)
    \/ \E outcome \in Outcomes(DecompositionTexts) : SolveDecompose(outcome)
    \/ \E outcome \in Outcomes(AgentResults) : SolveDispatchStep(outcome)
    \/ \E outcome \in Outcomes(EvaluationTexts) : SolveEvaluate(outcome)
    \/ \E outcome \in Outcomes(AgentResults) : SolveRetryStep(outcome)
    \/ UpdateStatusSelect
    \/ UpdateStatusCommit
    \/ Loop(execute_tasks)
    \/ \E i \in 1..Len(execs) : Loop(ExecStart(i))
    \/ \E i \in 1..Len(execs) : Loop(ExecSelectQueued(i))
    \/ \E i \in 1..Len(execs) : Loop(ExecCommitRunning(i))
    \/ \E i \in 1..Len(execs), result \in AgentResults :
           Loop(AgentReturns(i, result))
    \/ \E i \in 1..Len(execs), e \in Exceptions : Loop(AgentRaises(i, e))
    \/ \E i \in 1..Len(execs), result \in AgentResults, e \in Exceptions :
           Loop(CompletedCommitRaises(i, result, e))
    \/ \E i \in 1..Len(execs) : Loop(ExecRetry(i))
    \/ \E i \in 1..Len(execs) : Loop(ExecCommitFailed(i))
    \/ Loop(monitor_dead_letter_queue)
    \/ \E name \in AgentNames : Loop(add_agent(name))
    \/ \E name \in AgentNames : Loop(remove_agent(name))

Spec == Init /\ [][Next]_vars

\* -------------------------------------------------------------- SpecSolve
\* The synchronous dispatcher and the reasoner it owns.
NextSolve ==
    \/ \E task \in Descriptions, agent_name \in AgentNames,
          use_chain_of_thought \in BOOLEAN,
          outcome \in Outcomes(AgentResults) :
           simple_dispatch_task(task, agent_name, use_chain_of_thought, outcome)
    \/ \E outcome \in Outcomes(DecompositionTexts) : SolveDecompose(outcome)
    \/ \E outcome \in Outcomes(AgentResults) : SolveDispatchStep(outcome)
    \/ \E outcome \in Outcomes(EvaluationTexts) : SolveEvaluate(outcome)
    \/ \E outcome \in Outcomes(AgentResults) : SolveRetryStep(outcome)
    \/ \E name \in AgentNames : simple_add_agent(name)
    \/ \E name \in AgentNames : simple_remove_agent(name)

\* The synchronous dispatcher has no retry of its own: the field of the
\* asynchronous one stays at one value.
InitSolve == Init /\ max_retries = 1

SpecSolve == InitSolve /\ [][NextSolve]_vars

\* -------------------------------------------------------------- SpecStart
\* The asynchronous dispatcher from the submissions up to the first call of
\* agent.solve_task of every execution: what decides the order in which the
\* agent executions start.
InitStart == Init /\ max_retries = 1

NextStart ==
    \/ \E task \in Descriptions, agent_name \in AgentNames,
          priority \in Priorities, kwargs \in Kwargs, commit_ok \in BOOLEAN :
           dispatch_task(task, agent_name, priority, FALSE, kwargs, commit_ok)
    \/ Loop(execute_tasks)
    \/ \E i \in 1..Len(execs) : Loop(ExecStart(i))
    \/ \E i \in 1..Len(execs) : Loop(ExecSelectQueued(i))
    \/ \E i \in 1..Len(execs) : Loop(ExecCommitRunning(i))
    \/ \E name \in AgentNames : Loop(add_agent(name))
    \/ \E name \in AgentNames : Loop(remove_agent(name))

SpecStart == InitStart /\ [][NextStart]_vars

\* ------------------------------------------------------------- SpecReason
\* solve_task_with_reasoning alone, called through the synchronous
\* dispatcher for its registered agent, the agent answering with one of two
\* successes or a failure.
Done == << "d", "o", "n", "e" >>
StepResults == {Ok, Done, Failed}

InitReason == Init /\ max_retries = 1

NextReason ==
    \/ \E outcome \in Outcomes(StepResults) :
           simple_dispatch_task(T1, A1, TRUE, outcome)
    \/ \E outcome \in Outcomes(DecompositionTexts) : SolveDecompose(outcome)
    \/ \E outcome \in Outcomes(StepResults) : SolveDispatchStep(outcome)
    \/ \E outcome \in Outcomes(EvaluationTexts) : SolveEvaluate(outcome)
    \/ \E outcome \in Outcomes(StepResults) : SolveRetryStep(outcome)

SpecReason == InitReason /\ [][NextReason]_vars

\* --------------------------------------------------------------- SpecPure
\* parse_decomposition_output and _is_error, each called once on a text.
\* The lines a decomposition text is made of: numbered, bulleted, empty,
\* numbering only, and a numbered step whose content starts with a digit.
DecompositionLines ==
    { << "1", ".", " ", "S", "t", "e", "p", " ", "A" >>,
      << "2", ".", " ", "S", "t", "e", "p", " ", "B" >>,
      << "-", " ", "s", "A" >>,
      << >>,
      << "3", ")" >>,
      << "-" >>,
      << "1", ".", " ", "2", " ", "s", "B" >> }

\* "\n".join(lines)
RECURSIVE Join(_)
Join(lines) ==
    IF Len(lines) = 1 THEN lines[1]
    ELSE lines[1] \o << "\n" >> \o Join(Tail(lines))

ParseTexts ==
    { Join(lines) :
        lines \in UNION { [1..n -> DecompositionLines] : n \in 1..MaxSteps } }

\* The results _is_error is called on: results of agents, and the message
\* dispatch_task returns for an agent that is not registered.
ResultTexts ==
    { << "O", "p", "e", "r", "a", "t", "i", "o", "n", " ", "f", "a", "i",
         "l", "e", "d", ":", " ", "t", "i", "m", "e", "o", "u", "t" >>,
      << "T", "a", "s", "k", " ", "c", "o", "m", "p", "l", "e", "t", "e",
         "d", " ", "s", "u", "c", "c", "e", "s", "s", "f", "u", "l", "l",
         "y" >>,
      << "o", "k" >>,
      << "E", "R", "R", "O", "R" >>,
      << "I", "n", "v", "a", "l", "i", "d", " ", "i", "d" >>,
      << "E", "x", "c", "e", "p", "t", "i", "o", "n" >>,
      << "c", "o", "u", "l", "d", " ", "n", "o", "t" >>,
      << "c", "o", "u", "l", "d", "n", "o", "t" >>,
      << "U", "n", "a", "b", "l", "e", " ", "T", "o" >>,
      << "u", "n", "a", "b", "l", "e" >>,
      << "f", "a", "i", "l" >>,
      << "e", "r", "o", "r" >> }
    \cup { AgentNotFound(agent_name) : agent_name \in AgentNames }

InitPure ==
    /\ DispatcherInit
    /\ max_retries = 1
    /\ ReasonerInit
    /\ api = Pending(<< >>)
    /\ cot = CotIdle
    /\ pure_call \in
           { Called("parse_decomposition_output", text) : text \in ParseTexts }
           \cup { Called("_is_error", result) : result \in ResultTexts }
    /\ agent_base = NoAgentBase

NextPure ==
    \/ parse_decomposition_output_returns
    \/ is_error_returns

SpecPure == InitPure /\ [][NextPure]_vars

\* --------------------------------------------------------- SpecDeadLetter
\* The asynchronous dispatcher running submissions of one description, without
\* chain of thought, for its registered agent. run() gathers execute_tasks and
\* monitor_dead_letter_queue on one event loop; the monitor sleeps at most
\* five seconds between two looks at the dead-letter queue and no other
\* coroutine keeps the loop for ever, so the monitor takes its turn whenever
\* an entry waits.
InitDeadLetter == Init /\ max_retries = 1

NextDeadLetter ==
    \/ \E kwargs \in Kwargs : dispatch_task(T1, A1, 1, FALSE, kwargs, TRUE)
    \/ Loop(execute_tasks)
    \/ \E i \in 1..Len(execs) : Loop(ExecStart(i))
    \/ \E i \in 1..Len(execs) : Loop(ExecSelectQueued(i))
    \/ \E i \in 1..Len(execs) : Loop(ExecCommitRunning(i))
    \/ \E i \in 1..Len(execs) : Loop(AgentReturns(i, Ok))
    \/ \E i \in 1..Len(execs), e \in Exceptions : Loop(AgentRaises(i, e))
    \/ \E i \in 1..Len(execs) : Loop(ExecRetry(i))
    \/ \E i \in 1..Len(execs) : Loop(ExecCommitFailed(i))
    \/ Loop(monitor_dead_letter_queue)

SpecDeadLetter ==
    /\ InitDeadLetter
    /\ [][NextDeadLetter]_vars
    /\ WF_vars(Loop(monitor_dead_letter_queue))

\* The dispatcher with an agent that raises on every call, for entries of one
\* description and both priorities: the retries and the queue.
InitRetry == Init /\ max_retries = 1

NextRetry ==
    \/ \E priority \in Priorities, kwargs \in Kwargs :
           dispatch_task(T1, A1, priority, FALSE, kwargs, TRUE)
    \/ Loop(execute_tasks)
    \/ \E i \in 1..Len(execs) : Loop(ExecStart(i))
    \/ \E i \in 1..Len(execs) : Loop(ExecSelectQueued(i))
    \/ \E i \in 1..Len(execs) : Loop(ExecCommitRunning(i))
    \/ \E i \in 1..Len(execs), e \in Exceptions : Loop(AgentRaises(i, e))
    \/ \E i \in 1..Len(execs) : Loop(ExecRetry(i))
    \/ \E i \in 1..Len(execs) : Loop(ExecCommitFailed(i))

SpecRetry == InitRetry /\ [][NextRetry]_vars

\* The asynchronous dispatcher with reasoning and plain submissions of one
\* description: the reasoning call, the queue and the coroutines up to the
\* return of the agent.
InitCot == Init /\ max_retries = 1

NextCot ==
    \/ \E use_chain_of_thought \in BOOLEAN, kwargs \in Kwargs :
           dispatch_task(T1, A1, 1, use_chain_of_thought, kwargs, TRUE)
    \/ \E outcome \in Outcomes(DecompositionTexts) : SolveDecompose(outcome)
    \/ \E outcome \in Outcomes(AgentResults) : SolveDispatchStep(outcome)
    \/ \E outcome \in Outcomes(EvaluationTexts) : SolveEvaluate(outcome)
    \/ \E outcome \in Outcomes(AgentResults) : SolveRetryStep(outcome)
    \/ UpdateStatusSelect
    \/ UpdateStatusCommit
    \/ Loop(execute_tasks)
    \/ \E i \in 1..Len(execs) : Loop(ExecStart(i))
    \/ \E i \in 1..Len(execs) : Loop(ExecSelectQueued(i))
    \/ \E i \in 1..Len(execs) : Loop(ExecCommitRunning(i))
    \/ \E i \in 1..Len(execs) : Loop(AgentReturns(i, Ok))

SpecCot == InitCot /\ [][NextCot]_vars

\* An AgentBase object alone: calls of handle_task_with_error_handling, with
\* and without a fallback, of a subclass with or without log_error.
InitBase ==
    /\ DispatcherInit
    /\ max_retries = 1
    /\ ReasonerInit
    /\ api = Pending(<< >>)
    /\ cot = CotIdle
    /\ pure_call = NoCall
    /\ agent_base \in { AgentBaseInit(h) : h \in BOOLEAN }

NextBase ==
    \/ \E fallback \in BOOLEAN : handle_task_with_error_handling(fallback)
    \/ execute_with_retry_loop
    \/ \E result \in AgentResults : solve_task_returns(result)
    \/ \E e \in Exceptions : solve_task_raises(e)
    \/ execute_with_retry_sleep_over

SpecBase == InitBase /\ [][NextBase]_vars

\* ================================================================== claims
\* The execution has returned after at least one attempt, none of which
\* succeeded: the agent raised on every attempt it was given.
RaisedOnEveryAttempt(i) ==
    /\ execs[i].pc = "done"
    /\ execs[i].attempts >= 1
    /\ execs[i].returned # "result"

\* The number of entries the execution put on the dead-letter queue.
DeadLetterPuts(i) == Cardinality({ k \in DOMAIN dlq_log : dlq_log[k] = i })

\* C1: for every non-reasoning task whose agent raised on every attempt,
\* the execution, once over, has left the stored status of the task (the row
\* it marked running for its first attempt) at 'dead-lettered' and has put
\* exactly one entry for it on the dead-letter queue.
C1_RaisingTaskIsDeadLettered ==
    \A i \in DOMAIN execs :
        RaisedOnEveryAttempt(i)
        => /\ tasks[execs[i].first_task].status = "dead-lettered"
           /\ DeadLetterPuts(i) = 1

\* The step in which execution i returns the result of a successful attempt.
ReturnsResult(i) ==
    /\ execs[i].pc = "solving"
    /\ execs'[i].pc = "done"
    /\ execs'[i].returned = "result"

\* C2: for every non-reasoning task whose agent raised on attempts 1..k-1
\* and succeeds on attempt k <= max_retries, the execution ends with the
\* stored status of the task (the row it marked running for its first
\* attempt) at 'completed' and with a retry count of k-1. The Task row has no
\* retry_count column: the retry_count of the frame that made the successful
\* attempt stands for it.
C2_SuccessOnAttemptKIsCompleted ==
    [][ \A i \in DOMAIN execs :
            (ReturnsResult(i) /\ execs'[i].attempts <= max_retries)
            => /\ tasks'[execs'[i].first_task].status = "completed"
               /\ execs'[i].retry_count = execs'[i].attempts - 1 ]_vars

\* Execution j makes its first call of agent.solve_task in this step.
StartsAgent(j) == execs[j].attempts = 0 /\ execs'[j].attempts = 1

\* The entries of executions i and j were waiting in the priority queue
\* together (j's still was when i's was taken), for the same agent, i's with
\* the smaller priority number.
WaitedTogether(i, j) ==
    /\ execs[j].submitted \in execs[i].waiting
    /\ execs[i].agent_name = execs[j].agent_name
    /\ execs[i].priority < execs[j].priority

C4_UnregisteredAgentIsRejected ==
    [][ ( /\ calls' = calls + 1
          /\ api'.agent_name \notin DOMAIN agents
          /\ ~api'.raised )
        => /\ api'.returned
           /\ api'.value.kind = "str"
           /\ tasks' = tasks
           /\ task_queue' = task_queue ]_vars

\* The Solve call made for the reasoning task has returned; its
\* decomposition had a single step and the agent's result for that step was
\* classified as an error.
SingleStepFailed ==
    /\ solve.pc = "returned"
    /\ solve.caller = "core"
    /\ Len(solve.execution_order) = 1
    /\ Len(solve.log) = 1
    /\ solve.log[1].ev = "dispatch"
    /\ ~solve.log[1].raised
    /\ is_error(solve.log[1].text)

\* C5: when a reasoning task's decomposition has a single step and the
\* agent's result for it is an error, Solve returns a message holding
\* "Failed at step 1" and the stored status of the task's row does not
\* become 'completed'.
C5_FailedReasoningIsNotCompleted ==
    [][ SingleStepFailed
        => /\ Contains(solve.ret.text,
                       << "F", "a", "i", "l", "e", "d", " ", "a", "t", " ",
                          "s", "t", "e", "p", " ", "1" >>)
           /\ tasks'[cot.row].status # "completed" ]_vars

\* C6: every dispatch_task call that has returned handed its caller a value
\* (a result text, an error text or None), never an exception.
C6_NoExceptionCrossesTheApi == api.returned => ~api.raised

\* The edges of the status machine.
StatusEdges ==
    { << "queued", "running" >>, << "running", "completed" >>,
      << "running", "retrying" >>, << "retrying", "running" >>,
      << "running", "failed" >>, << "failed", "dead-lettered" >> }

\* C7: every row enters the Task table as queued, and every change of a
\* row's stored status follows an edge of queued -> running -> {completed |
\* retrying -> running | failed -> dead-lettered}; so no other status is
\* stored and a completed or dead-lettered row is never changed.
C7_StatusFollowsTheMachine ==
    [][ \A id \in DOMAIN tasks' :
            IF id \in DOMAIN tasks
            THEN tasks'[id].status # tasks[id].status
                 => << tasks[id].status, tasks'[id].status >> \in StatusEdges
            ELSE tasks'[id].status = "queued" ]_vars

\* C8: every acquire of _execute_standard_task is paired with one release on
\* every exit path: a limiter none of whose permits is held by a frame of an
\* execution still running holds no permit.
C8_NoPermitLeaks ==
    \A l \in DOMAIN limiters :
        (\A i \in DOMAIN execs :
            execs[i].rate_limiter # l
            /\ \A k \in DOMAIN execs[i].frames : execs[i].frames[k] # l)
        => limiters[l] = 0

\* The events of the Solve call in progress, or of the last one.
SolveLog == solve.log

\* The content of the step the loop handles in its idx-th turn.
StepContent(idx) == reasoning_graph.nodes[solve.execution_order[idx]]

\* An answer of the evaluator that holds a yes, in any letter case.
HoldsYes(text) ==
    \E k \in 1..(Len(text) - 2) :
        /\ text[k] \in {"y", "Y"}
        /\ text[k + 1] \in {"e", "E"}
        /\ text[k + 2] \in {"s", "S"}

\* Every call Solve made returned, every agent result was classified as a
\* success and every evaluation answer held a yes.
AllStepsValid ==
    \A k \in DOMAIN SolveLog :
        /\ ~SolveLog[k].raised
        /\ SolveLog[k].ev \in {"dispatch", "retry"} => ~is_error(SolveLog[k].text)
        /\ SolveLog[k].ev = "evaluate" => HoldsYes(SolveLog[k].text)

\* C9: when every step's agent result is classified as a success and every
\* self-evaluation answer holds a yes, a Solve call over n >= 1 steps that
\* has returned made exactly the calls dispatch 1, evaluate 1, ...,
\* dispatch n, evaluate n (each step dispatched once, no retry_step) and
\* returned the result of the dispatch of step n.
C9_AllValidReturnsLastResult ==
    ( /\ solve.pc = "returned"
      /\ Len(solve.execution_order) >= 1
      /\ AllStepsValid )
    => LET n == Len(solve.execution_order) IN
       /\ Len(SolveLog) = 2 * n
       /\ \A idx \in 1..n :
              /\ SolveLog[2 * idx - 1].ev = "dispatch"
              /\ SolveLog[2 * idx - 1].idx = idx
              /\ SolveLog[2 * idx].ev = "evaluate"
              /\ SolveLog[2 * idx].idx = idx
       /\ solve.ret = Str(SolveLog[2 * n - 1].text)

\* C9 witness: a Solve call over two steps has returned with every result a
\* success and every evaluation a yes.
C9_Witness ==
    /\ solve.pc = "returned"
    /\ Len(solve.execution_order) = 2
    /\ Len(SolveLog) >= 4
    /\ AllStepsValid

\* C10: when the first result of step i is classified as an error, that
\* dispatch is the last call Solve makes (no later step, no self-evaluation
\* and no retry of step i), Solve has returned, and what it returned is a
\* message holding "step <i>" and the content of the step, and is not the
\* result accepted for an earlier step.
C10_StepErrorAborts ==
    \A k \in DOMAIN SolveLog :
        ( /\ SolveLog[k].ev = "dispatch"
          /\ ~SolveLog[k].raised
          /\ is_error(SolveLog[k].text) )
        => /\ k = Len(SolveLog)
           /\ solve.pc = "returned"
           /\ solve.ret.kind = "str"
           /\ Contains(solve.ret.text,
                       << "s", "t", "e", "p", " " >> \o IntToText(SolveLog[k].idx))
           /\ Contains(solve.ret.text, StepContent(SolveLog[k].idx))
           /\ solve.ret # solve.final_result

\* C10 witness: the second step's first result was an error, after the
\* first step's result had been accepted.
C10_Witness ==
    /\ solve.final_result # NoneVal
    /\ \E k \in DOMAIN SolveLog :
           /\ SolveLog[k].ev = "dispatch"
           /\ SolveLog[k].idx = 2
           /\ ~SolveLog[k].raised
           /\ is_error(SolveLog[k].text)

\* The k-th call of the Solve call was a self-evaluation whose answer holds
\* no yes.
Rejected(k) ==
    /\ SolveLog[k].ev = "evaluate"
    /\ ~SolveLog[k].raised
    /\ ~HoldsYes(SolveLog[k].text)

TryAgain == << "t", "r", "y", " ", "a", "g", "a", "i", "n" >>

\* C11: after a self-evaluation that rejects the result of step i, the next
\* call Solve makes is the retry of step i, with a prompt that holds the
\* request to try again and the content of the step. If the retry returns a
\* result classified as an error, it is the last call, and Solve returns the
\* message "Retry failed at step i ...". If it returns any other result,
\* that result is the one accepted: it is final_result, it is the memory of
\* the step, and what follows is the dispatch of step i + 1 or, after the
\* last step, the return of that result; no evaluation and no retry follow.
C11_RejectedStepIsRetriedOnce ==
    \A k \in DOMAIN SolveLog :
        Rejected(k) =>
            LET idx == SolveLog[k].idx
                n == Len(solve.execution_order)
                last == Len(SolveLog)
            IN  /\ k = last => solve.pc = "retry" /\ solve.idx = idx
                /\ k < last =>
                       LET retry == SolveLog[k + 1] IN
                       /\ retry.ev = "retry"
                       /\ retry.idx = idx
                       /\ k + 1 = last =>
                              /\ Contains(solve.prompt, TryAgain)
                              /\ Contains(solve.prompt, StepContent(idx))
                       /\ k + 1 < last =>
                              /\ SolveLog[k + 2].ev = "dispatch"
                              /\ SolveLog[k + 2].idx = idx + 1
                       /\ (~retry.raised /\ is_error(retry.text)) =>
                              /\ k + 1 = last
                              /\ solve.pc = "returned"
                              /\ solve.ret =
                                     Str(RetryFailedAtStep(idx, StepContent(idx),
                                                           retry.text))
                       /\ (~retry.raised /\ ~is_error(retry.text)) =>
                              /\ k + 1 = last =>
                                     /\ solve.final_result = Str(retry.text)
                                     /\ memory[solve.execution_order[idx]] = retry.text
                                     /\ IF idx = n
                                        THEN /\ solve.pc = "returned"
                                             /\ solve.ret = Str(retry.text)
                                        ELSE /\ solve.pc = "dispatch"
                                             /\ solve.idx = idx + 1

\* C11 witness: the result of the first of two steps was rejected, the retry
\* returned another success, and the second step has been dispatched.
C11_Witness ==
    /\ Len(SolveLog) >= 4
    /\ Rejected(2)
    /\ SolveLog[3].ev = "retry"
    /\ ~SolveLog[3].raised
    /\ ~is_error(SolveLog[3].text)
    /\ SolveLog[3].text # SolveLog[1].text
    /\ SolveLog[4].ev = "dispatch"

\* The k-th call of the Solve call returned the result accepted for its
\* step: a dispatch with a success that the evaluation that follows
\* approves, or a retry with a success.
AcceptedAt(k) ==
    /\ SolveLog[k].ev \in {"dispatch", "retry"}
    /\ ~SolveLog[k].raised
    /\ ~is_error(SolveLog[k].text)
    /\ SolveLog[k].ev = "dispatch" =>
           /\ k < Len(SolveLog)
           /\ ~SolveLog[k + 1].raised
           /\ HoldsYes(SolveLog[k + 1].text)

\* The decomposition pipeline has answered, and not raised.
Decomposed ==
    /\ solve.decomposition # NoneVal
    /\ ~solve.decomposition.raised

\* C12: once the result of the last step is accepted (which takes every
\* earlier step to have succeeded), Solve has returned that result; and
\* when the decomposition answers with a text that holds no step, Solve has
\* returned "No result produced." and has made no call to the dispatcher.
C12_ReturnsLastAcceptedOrSentinel ==
    /\ \A k \in DOMAIN SolveLog :
           ( /\ AcceptedAt(k)
             /\ SolveLog[k].idx = Len(solve.execution_order) )
           => /\ solve.pc = "returned"
              /\ solve.ret = Str(SolveLog[k].text)
              /\ \A idx \in 1..Len(solve.execution_order) :
                     \E j \in 1..k : SolveLog[j].idx = idx /\ AcceptedAt(j)
    /\ ( Decomposed /\ solve.execution_order = << >> )
       => /\ solve.pc = "returned"
          /\ solve.ret = Str(NoResultProduced)
          /\ SolveLog = << >>

\* C12 witness: a call over two steps returned after the two steps were
\* accepted with different results.
C12_Witness ==
    /\ solve.pc = "returned"
    /\ Len(solve.execution_order) = 2
    /\ \E j, k \in DOMAIN SolveLog :
           /\ AcceptedAt(j) /\ SolveLog[j].idx = 1
           /\ AcceptedAt(k) /\ SolveLog[k].idx = 2
           /\ SolveLog[j].text # SolveLog[k].text

\* C12 witness of the second case: the decomposition answered with no step.
C12_WitnessNoSteps ==
    /\ Decomposed
    /\ solve.execution_order = << >>
    /\ solve.pc = "returned"

\* The decomposition pipeline raises in this step.
DecompositionRaises ==
    /\ solve.pc = "decompose"
    /\ solve'.decomposition # NoneVal
    /\ solve'.decomposition.raised

\* C13: the step in which the decomposition pipeline raises ends the Solve
\* call: the call has made and makes no call to the dispatcher, the
\* reasoning graph is left as it was and none of its steps is scheduled,
\* and the caller gets a text that holds the message of the exception, not
\* the exception.
C13_DecompositionFailureFailsTheCall ==
    [][ DecompositionRaises =>
          /\ solve'.pc = "returned"
          /\ solve'.log = << >>
          /\ solve'.execution_order = << >>
          /\ reasoning_graph' = reasoning_graph
          /\ solve'.ret.kind = "str"
          /\ Contains(solve'.ret.text, solve'.decomposition.text)
          /\ solve.caller = "simple" =>
                 /\ api'.returned
                 /\ ~api'.raised
                 /\ api'.value = solve'.ret ]_vars

\* C13 witness: the decomposition raised in a call made when an earlier
\* call had left a graph of two steps, and the call has returned.
C13_Witness ==
    /\ solve.pc = "returned"
    /\ solve.decomposition # NoneVal
    /\ solve.decomposition.raised
    /\ Cardinality(DOMAIN reasoning_graph.nodes) = 2

Digits == { "0", "1", "2", "3", "4", "5", "6", "7", "8", "9" }

\* The number of digits the line starts with.
LeadingDigits(line) ==
    CHOOSE d \in 0..Len(line) :
        /\ \A j \in 1..d : line[j] \in Digits
        /\ d < Len(line) => line[d + 1] \notin Digits

\* The line without its numbering ("<digits>." or "<digits>)") or its bullet
\* ("-") and the blanks that follow it; a line that starts with neither is
\* left as it is.
WithoutNumbering(line) ==
    LET d == LeadingDigits(line)
    IN  IF d > 0 /\ d < Len(line) /\ line[d + 1] \in {".", ")"}
        THEN LStrip(SubSeq(line, d + 2, Len(line)), {" "})
        ELSE IF line # << >> /\ line[1] = "-"
        THEN LStrip(SubSeq(line, 2, Len(line)), {" "})
        ELSE line

\* The lines, in their order, each without its numbering, those dropped of
\* which nothing is left.
RECURSIVE StepsOfLines(_)
StepsOfLines(lines) ==
    IF lines = << >> THEN << >>
    ELSE (IF WithoutNumbering(Head(lines)) = << >> THEN << >>
          ELSE << WithoutNumbering(Head(lines)) >>)
         \o StepsOfLines(Tail(lines))

\* C14: parse_decomposition_output(text) returns the lines of the text in
\* their order, each without its leading numbering or bullet and otherwise
\* as it is, the lines that are empty or hold only a numbering or a bullet
\* left out; "1. Step A\n2. Step B" gives ["Step A", "Step B"].
C14_ParseKeepsStepContents ==
    ( /\ pure_call.fn = "parse_decomposition_output"
      /\ pure_call.done )
    => /\ pure_call.ret = StepsOfLines(Split(pure_call.arg, "\n"))
       /\ pure_call.arg = << "1", ".", " ", "S", "t", "e", "p", " ", "A", "\n",
                             "2", ".", " ", "S", "t", "e", "p", " ", "B" >>
          => pure_call.ret = << << "S", "t", "e", "p", " ", "A" >>,
                                << "S", "t", "e", "p", " ", "B" >> >>

CapitalLetters ==
    << "A", "B", "C", "D", "E", "F", "G", "H", "I", "J", "K", "L", "M",
       "N", "O", "P", "Q", "R", "S", "T", "U", "V", "W", "X", "Y", "Z" >>

SmallLetters ==
    << "a", "b", "c", "d", "e", "f", "g", "h", "i", "j", "k", "l", "m",
       "n", "o", "p", "q", "r", "s", "t", "u", "v", "w", "x", "y", "z" >>

\* The character c is the small character w, or its capital.
IsLetter(c, w) ==
    c = w \/ \E i \in 1..26 : CapitalLetters[i] = c /\ SmallLetters[i] = w

\* The word, written in small letters, occurs in the text in some letter
\* case.
Occurs(text, word) ==
    \E k \in 0..(Len(text) - Len(word)) :
        \A j \in 1..Len(word) : IsLetter(text[k + j], word[j])

\* The indicators the classification is said to look for.
IndicatorsOfC15 ==
    { << "e", "r", "r", "o", "r" >>,
      << "f", "a", "i", "l", "e", "d" >>,
      << "e", "x", "c", "e", "p", "t", "i", "o", "n" >>,
      << "i", "n", "v", "a", "l", "i", "d" >>,
      << "c", "o", "u", "l", "d", " ", "n", "o", "t" >>,
      << "u", "n", "a", "b", "l", "e", " ", "t", "o" >> }

OperationFailedTimeout ==
    << "O", "p", "e", "r", "a", "t", "i", "o", "n", " ", "f", "a", "i", "l",
       "e", "d", ":", " ", "t", "i", "m", "e", "o", "u", "t" >>

TaskCompletedSuccessfully ==
    << "T", "a", "s", "k", " ", "c", "o", "m", "p", "l", "e", "t", "e", "d",
       " ", "s", "u", "c", "c", "e", "s", "s", "f", "u", "l", "l", "y" >>

\* C15: _is_error(result) returns True exactly when one of "error",
\* "failed", "exception", "invalid", "could not", "unable to" occurs in the
\* result in some letter case: True for "Operation failed: timeout", False
\* for "Task completed successfully".
C15_IsErrorLooksForIndicators ==
    ( /\ pure_call.fn = "_is_error"
      /\ pure_call.done )
    => /\ pure_call.ret = TRUE
          <=> \E word \in IndicatorsOfC15 : Occurs(pure_call.arg, word)
       /\ pure_call.arg = OperationFailedTimeout => pure_call.ret = TRUE
       /\ pure_call.arg = TaskCompletedSuccessfully => pure_call.ret = FALSE

\* C15 witness: _is_error has returned True for a result that holds an
\* indicator in capitals.
C15_Witness ==
    /\ pure_call.fn = "_is_error"
    /\ pure_call.done
    /\ pure_call.arg = << "E", "R", "R", "O", "R" >>
    /\ pure_call.ret = TRUE

\* What a lookup of the name finds: the instance, or 0 for none.
Lookup(name) == IF name \in DOMAIN agents THEN agents[name] ELSE 0

\* What the calls made so far leave registered under the name: the instance
\* of the last add_agent if no remove_agent came after it, the instance the
\* dispatcher was constructed with if no call names the name, else none.
RECURSIVE LastRegistration(_, _)
LastRegistration(name, ops) ==
    IF ops = << >> THEN (IF name = A1 THEN 1 ELSE 0)
    ELSE LET last == ops[Len(ops)]
         IN  IF last.name # name
             THEN LastRegistration(name, SubSeq(ops, 1, Len(ops) - 1))
             ELSE IF last.op = "add" THEN last.handle ELSE 0

\* C16: after any add_agent and remove_agent calls, a name is looked up to
\* the instance of its last add_agent if no remove_agent of the name came
\* after it, and to nothing otherwise; a remove_agent of a name that is not
\* registered changes no entry.
C16_LastRegistrationWins ==
    \A name \in AgentNames : Lookup(name) = LastRegistration(name, registry_ops)

\* C16 witness: add_agent was called for a name that was registered, with
\* another instance.
C16_Witness ==
    /\ registry_ops # << >>
    /\ registry_ops[1].op = "add"
    /\ registry_ops[1].name = A1
    /\ Lookup(A1) = registry_ops[1].handle
    /\ Lookup(A1) # 1

\* A dispatch_task call without chain of thought for a registered agent
\* returns in this step (a call that raises is C6's case).
SubmitsForRegistered ==
    /\ calls' = calls + 1
    /\ cot' = cot
    /\ api'.returned
    /\ ~api'.raised
    /\ api'.agent_name \in DOMAIN agents

\* The entries of the heap list, as a bag.
EntriesOf(heap) ==
    [ e \in { heap[k] : k \in DOMAIN heap } |->
        Cardinality({ k \in DOMAIN heap : heap[k] = e }) ]

\* C17: a dispatch_task call without chain of thought for a registered agent
\* adds one row, with status 'queued', to the Task table, puts exactly one
\* entry on the priority queue, which holds the priority, the description
\* and the agent of that row, and returns None; it creates no execution and
\* takes no permit of a limiter.
C17_SubmitQueuesAndReturns ==
    [][ SubmitsForRegistered =>
          LET id == Len(tasks) + 1 IN
          /\ Len(tasks') = id
          /\ SubSeq(tasks', 1, Len(tasks)) = tasks
          /\ tasks'[id].status = "queued"
          /\ tasks'[id].agent_id = api'.agent_name
          /\ \E priority \in Priorities, kwargs \in Kwargs :
                 /\ tasks'[id].priority = priority
                 /\ EntriesOf(task_queue') =
                        EntriesOf(Append(task_queue,
                                         Entry(priority, tasks'[id].description,
                                               api'.agent_name, kwargs, id)))
          /\ api'.value = NoneVal
          /\ execs' = execs
          /\ limiters' = limiters ]_vars

\* C18: an entry leaves the priority queue before every entry of the same
\* priority that was submitted after it: no entry that is still queued when
\* an entry is taken has the priority of the entry taken and an earlier
\* submission.
C18_EqualPriorityLeavesInSubmissionOrder ==
    \A j \in DOMAIN execs :
        \A row \in execs[j].waiting :
            tasks[row].priority = execs[j].priority
                => execs[j].submitted < row

\* The coroutine has put its entry on the dead-letter queue.
DeadLettered(i) == \E k \in DOMAIN dlq_log : dlq_log[k] = i

\* C19: the dead-letter queue is empty again and again, so that every entry
\* put on it is eventually taken by the monitor, the only one to take
\* entries from it; the monitor has logged one warning for every entry it
\* has taken; and no entry of a coroutine that has dead-lettered is on the
\* priority queue, nor does that coroutine call its agent again.
C19_DeadLetterIsDrainedAndFinal ==
    /\ []<>(dead_letter_queue = << >>)
    /\ [](warnings + Len(dead_letter_queue) = Len(dlq_log))
    /\ [][ \A i \in DOMAIN execs :
              DeadLettered(i) =>
                  /\ execs'[i].attempts = execs[i].attempts
                  /\ \A k \in DOMAIN task_queue' :
                         task_queue'[k][5] # execs[i].submitted ]_vars

\* C19 witness: an entry was put on the dead-letter queue and the monitor
\* has taken it.
C19_Witness ==
    /\ dlq_log # << >>
    /\ dead_letter_queue = << >>
    /\ warnings = 1

\* C20: a row of the Task table whose status is 'completed' keeps its status
\* and its result in every step of the dispatcher.
C20_CompletedRecordIsStable ==
    [][ \A id \in DOMAIN tasks :
          tasks[id].status = "completed" =>
              /\ tasks'[id].status = tasks[id].status
              /\ tasks'[id].result = tasks[id].result ]_vars

\* C21: no coroutine calls agent.solve_task for its entry more than
\* max_retries times, the first call counted.
C21_AttemptsBoundedByMaxRetries ==
    \A i \in DOMAIN execs : execs[i].attempts <= max_retries

\* C22: while a coroutine sleeps between its failed attempt number k (counted
\* from 1) and the attempt that follows, the sleep lasts 2^k seconds.
C22_BackoffDoublesFromTwo ==
    \A i \in DOMAIN execs :
        execs[i].pc = "sleep" => execs[i].backoff = 2 ^ execs[i].attempts

\* C23: the step in which agent.solve_task returns to a coroutine stores the
\* value the agent returned as the result of the coroutine's row, with status
\* "completed", and the coroutine returns that same value.
C23_AgentValueIsStoredAndReturned ==
    [][\A i \in DOMAIN execs :
          (execs[i].pc = "solving" /\ execs'[i].returned = "result") =>
              /\ execs'[i].returned_result = execs'[i].agent_value
              /\ tasks'[execs[i].current_task].result = execs'[i].agent_value
              /\ tasks'[execs[i].current_task].status = "completed"]_vars

\* C24: a coroutine that commits "running" on the row it selected finds that
\* row still "queued": no other coroutine has moved it since the select.
C24_QueuedRowIsStartedOnce ==
    [][\A i \in DOMAIN execs :
          (execs[i].pc = "commit" /\ execs'[i].pc = "solving") =>
              tasks[execs[i].current_task].status = "queued"]_vars

\* C25: the row a coroutine selects for its status and result updates is the
\* row committed by the dispatch_task call that queued the coroutine's entry.
C25_UpdatesGoToTheSubmittedRow ==
    \A i \in DOMAIN execs :
        execs[i].current_task # 0 => execs[i].current_task = execs[i].submitted

\* C26: while Solve is about to retry a step whose result the evaluation has
\* just rejected, the memory does not hold that result under the step's id.
C26_RejectedResultIsNotInMemory ==
    \A k \in 2..Len(SolveLog) :
        (k = Len(SolveLog) /\ solve.pc = "retry" /\ Rejected(k)) =>
            LET step_id == solve.execution_order[SolveLog[k].idx]
            IN  ~(/\ step_id \in DOMAIN memory
                  /\ memory[step_id] = SolveLog[k - 1].text)

\* The result the current Solve call kept for the step of its j-th turn:
\* the text of the last dispatch or retry of that turn.
ResultOfTurn(j) ==
    LET ks == { k \in 1..Len(SolveLog) :
                  /\ SolveLog[k].idx = j
                  /\ SolveLog[k].ev \in {"dispatch", "retry"} }
        last == CHOOSE k \in ks : \A l \in ks : l <= k
    IN  SolveLog[last].text

\* C27: the memory that enriches the step of turn i of a Solve call holds
\* the results of the turns 1..i-1 of that call, each under its step id,
\* and nothing else.
C27_ContextIsThisCallsEarlierSteps ==
    \A k \in 1..Len(SolveLog) :
        SolveLog[k].ev = "dispatch" =>
            LET earlier == 1..(SolveLog[k].idx - 1)
                context == SolveLog[k].context
            IN  /\ DOMAIN context =
                       { solve.execution_order[j] : j \in earlier }
                /\ \A j \in earlier :
                       context[solve.execution_order[j]] = ResultOfTurn(j)

\* C28: the names that have a rate limiter are the names that have an agent
\* registered, after the constructor and after every add_agent and
\* remove_agent.
C28_LimitersMatchAgents ==
    DOMAIN rate_limiters = DOMAIN agents

\* The last registry call removed the agent the dispatcher was constructed
\* with.
C28_Witness ==
    /\ registry_ops # << >>
    /\ registry_ops[Len(registry_ops)].op = "remove"
    /\ registry_ops[Len(registry_ops)].name = A1
    /\ A1 \notin DOMAIN agents

\* The limiter of the agent of coroutine i has a permit left.
LimiterHasRoom(i) ==
    execs[i].agent_name \in DOMAIN rate_limiters =>
        limiters[rate_limiters[execs[i].agent_name]] < LimiterMaxRate

\* C29: the step in which an attempt of a coroutine fails and the step in
\* which the coroutine leaves its backoff sleep leave the priority queue as
\* it is; leaving the sleep, the coroutine itself goes on with retry_count
\* one higher; and a sleeping coroutine whose limiter has a permit can go on
\* whatever the priority queue holds.
C29_RetryIsNotARequeue ==
    [][\A i \in DOMAIN execs :
          /\ (execs[i].pc = "solving" /\ execs'[i].pc = "sleep") =>
                 task_queue' = task_queue
          /\ (execs[i].pc = "sleep" /\ execs'[i].pc # "sleep") =>
                 /\ task_queue' = task_queue
                 /\ execs'[i].retry_count = execs[i].retry_count + 1
          /\ (execs[i].pc = "sleep" /\ LimiterHasRoom(i)) =>
                 ENABLED ExecRetry(i)]_vars

\* A coroutine is in its second or a later attempt for an entry of priority
\* 2 while an entry of priority 1 is waiting on the queue.
C29_Witness ==
    \E i \in DOMAIN execs :
        /\ execs[i].retry_count > 0
        /\ execs[i].pc = "solving"
        /\ execs[i].priority = 2
        /\ \E k \in 1..Len(task_queue) : task_queue[k][1] = 1

\* The entry has a row: the one its dispatch_task call committed, with the
\* description, the agent and the priority of the entry.
HasRecord(entry, rows) ==
    /\ entry[5] \in 1..Len(rows)
    /\ rows[entry[5]].description = entry[2]
    /\ rows[entry[5]].agent_id = entry[3]
    /\ rows[entry[5]].priority = entry[1]

\* C30: after every step each entry on the priority queue has its committed
\* row, and a dispatch_task call whose commit raises ends with the exception,
\* the rows and the priority queue as they were.
C30_QueuedEntriesArePersisted ==
    [][/\ \A k \in 1..Len(task_queue') : HasRecord(task_queue'[k], tasks')
       /\ (calls' = calls + 1 /\ api'.raised) =>
              /\ api'.returned
              /\ tasks' = tasks
              /\ task_queue' = task_queue]_vars

\* A dispatch_task call has just failed in its commit while an entry of an
\* earlier call is on the queue.
C30_Witness ==
    /\ api.raised
    /\ task_queue # << >>
    /\ calls > Len(tasks)

\* The name was not registered by the constructor, or a remove_agent call
\* has named it.
WasUnregistered(name) ==
    \/ name # A1
    \/ \E k \in 1..Len(registry_ops) :
           registry_ops[k].op = "remove" /\ registry_ops[k].name = name

\* C31: a coroutine that is past its lookup holds the agent it looked up and,
\* if it found a limiter, a limiter that still exists, whether or not the
\* agent is still registered; a coroutine that has ended has returned a
\* result or one of the three error messages, the not-found message only for
\* an agent that was unregistered.
C31_RemovalIsTolerated ==
    \A i \in DOMAIN execs :
        /\ execs[i].pc \in {"select", "commit", "solving", "sleep",
                            "store_failed"} =>
               /\ execs[i].agent # 0
               /\ execs[i].rate_limiter # 0 =>
                      execs[i].rate_limiter \in DOMAIN limiters
        /\ execs[i].pc = "done" =>
               execs[i].returned \in {"result", "error", "no_matching_task",
                                      "agent_not_found"}
        /\ execs[i].returned = "agent_not_found" =>
               WasUnregistered(execs[i].agent_name)

\* One coroutine is calling the agent it looked up before remove_agent took
\* the agent from the registry, another found the agent gone.
C31_Witness ==
    \E i, j \in DOMAIN execs :
        /\ execs[i].pc = "solving"
        /\ execs[i].agent_name \notin DOMAIN agents
        /\ execs[i].agent # 0
        /\ execs[j].returned = "agent_not_found"

GraphBuilt == solve.decomposition # NoneVal /\ ~solve.decomposition.raised

\* C33: the graph Solve built for the n steps parsed has the nodes step_1 ..
\* step_n with the steps as their contents and the edges step_i ->
\* step_i+1 and no others, the execution order is step_1 .. step_n, and the
\* call that precedes the dispatch of a step after the first is the one
\* that accepted the result of the step before it.
C33_GraphIsTheChainOfTheSteps ==
    GraphBuilt =>
        LET steps == parse_decomposition_output(solve.decomposition.text)
            n == Len(steps)
        IN  /\ reasoning_graph.nodes = [ k \in 1..n |-> steps[k] ]
            /\ reasoning_graph.edges = { << k, k + 1 >> : k \in 1..(n - 1) }
            /\ n > 0 => solve.execution_order = [ k \in 1..n |-> k ]
            /\ \A k \in 1..Len(SolveLog) :
                   SolveLog[k].ev = "dispatch" =>
                       IF SolveLog[k].idx = 1 THEN k = 1
                       ELSE /\ k > 1
                            /\ SolveLog[k - 1].idx = SolveLog[k].idx - 1
                            /\ \/ AcceptedAt(k - 1)
                               \/ k > 2 /\ AcceptedAt(k - 2)
                                        /\ SolveLog[k - 1].ev = "evaluate"

\* The second call of Solve has built a graph of fewer steps than the first
\* and is done with it.
C33_Witness ==
    /\ GraphBuilt
    /\ solve.pc = "returned"
    /\ calls = 2
    /\ Len(solve.execution_order) = 1
    /\ memory # << >> /\ 2 \in DOMAIN memory

\* Coroutine i holds the permit it took at the head of its current frame.
HoldsFramePermit(i) ==
    /\ execs[i].pc \in {"select", "commit", "solving", "sleep", "store_failed"}
    /\ execs[i].rate_limiter # 0

\* C34: a coroutine takes the permit of a frame only after it has stored
\* "running" on its row in that frame, so that a coroutine that holds the
\* permit has stored "running" once per frame it has begun, and a coroutine
\* that found no queued row has taken no permit: with every coroutine
\* ended, no permit is out.
C34_RunningIsStoredBeforeThePermit ==
    /\ \A i \in DOMAIN execs :
           HoldsFramePermit(i) => execs[i].attempts = execs[i].retry_count + 1
    /\ (\A i \in DOMAIN execs : execs[i].pc = "done") =>
           \A l \in DOMAIN limiters : limiters[l] = 0

\* Nothing is left to run: the priority queue is empty and every coroutine
\* has ended.
Quiescent ==
    /\ task_queue = << >>
    /\ \A i \in DOMAIN execs : execs[i].pc = "done"

\* C35: once nothing is left to run, no row of a task submitted without
\* chain of thought is "queued" or "running": each has reached "completed"
\* or "failed".
C35_EveryTaskEndsTerminal ==
    Quiescent =>
        \A r \in 1..Len(tasks) :
            ~tasks[r].use_chain_of_thought =>
                tasks[r].status \in {"completed", "failed"}

\* The permits coroutine i holds: one per frame whose finally has not run,
\* and the one taken at the head of a frame that has not entered its try.
PermitsHeld(i) ==
    Len(SelectSeq(execs[i].frames, LAMBDA l : l # 0))
    + (IF execs[i].pc \in {"select", "commit"} /\ execs[i].rate_limiter # 0
       THEN 1 ELSE 0)

\* C36: a coroutine holds at most one permit of its agent's limiter at any
\* time, its re-attempts included.
C36_OnePermitPerTask ==
    \A i \in DOMAIN execs : PermitsHeld(i) <= 1

\* C37: _is_error returns True for the message dispatch_task returns for an
\* agent that is not registered.
C37_NotFoundIsAnError ==
    ( /\ pure_call.fn = "_is_error"
      /\ pure_call.done
      /\ \E agent_name \in AgentNames :
             pure_call.arg = AgentNotFound(agent_name) )
    => pure_call.ret = TRUE

\* The calls of the log are those of a single pass over n steps: each call
\* is for one of the steps 1..n, the steps come in rising order, and no step
\* has two dispatches, two evaluations or two retries.
SinglePass(log, n) ==
    /\ \A k \in 1..Len(log) : log[k].idx \in 1..n
    /\ \A k, l \in 1..Len(log) :
           k < l => /\ log[k].idx <= log[l].idx
                    /\ ~(log[k].idx = log[l].idx /\ log[k].ev = log[l].ev)

\* The number of calls of the kinds given in the log.
CallsOf(log, kinds) ==
    Cardinality({ k \in 1..Len(log) : log[k].ev \in kinds })

\* C38: every step of a running Solve call makes one call to the agent or
\* the evaluator (or is the decomposition), and the calls made stay those of
\* a single pass over the n steps of the decomposition: at most 2n calls to
\* the agent and n to the evaluator, so that the call ends within 3n + 1
\* steps.
C38_SolveIsASinglePass ==
    [][SolveRunning =>
          LET n == Len(solve'.execution_order)
          IN  /\ \/ solve.pc = "decompose" /\ solve'.log = << >>
                 \/ Len(solve'.log) = Len(solve.log) + 1
              /\ SinglePass(solve'.log, n)
              /\ CallsOf(solve'.log, {"dispatch", "retry"}) <= 2 * n
              /\ CallsOf(solve'.log, {"evaluate"}) <= n
              /\ Len(solve'.log) <= 3 * n]_vars

\* A Solve call of MaxSteps steps has returned after a dispatch, an
\* evaluation and a retry of every step.
C38_Witness ==
    /\ solve.pc = "returned"
    /\ Len(solve.execution_order) = MaxSteps
    /\ Len(SolveLog) = 3 * MaxSteps

\* The status changes AgentBase is to make: pending -> running ->
\* (retrying -> running)* -> completed or failed.
TaskStateEdges ==
    { << "pending", "running" >>, << "running", "retrying" >>,
      << "retrying", "running" >>, << "running", "completed" >>,
      << "running", "failed" >> }

\* C39: handle_task_with_error_handling calls solve_task at most
\* MAX_RETRIES times and moves the status of its row along pending ->
\* running -> (retrying -> running)*; when the call has ended it has
\* returned and not raised, the row is completed if the last solve_task call
\* returned, and failed, after exactly MAX_RETRIES calls, if all of them
\* raised.
C39_HandleTaskEndsCompletedOrFailed ==
    agent_base.pc # "none" =>
        LET b == agent_base
            n == Len(b.trail)
        IN  /\ b.solve_calls <= MAX_RETRIES
            /\ \A k \in 1..(n - 1) :
                   << b.trail[k], b.trail[k + 1] >> \in TaskStateEdges
            /\ b.pc = "done" =>
                   /\ ~b.raised
                   /\ b.rows[b.task_id].status \in {"completed", "failed"}
                   /\ b.rows[b.task_id].status = "completed" <=>
                          b.solve_calls = b.attempt + 1
                   /\ b.rows[b.task_id].status = "failed" =>
                          b.solve_calls = MAX_RETRIES

====
